---- MODULE Spec2Model ----
(***************************************************************************)
(* Slack emoji tracker: the write path of slack_emoji_tracker              *)
(* (EmojiService over a SQLAlchemy session opened by get_db_session, fed   *)
(* by the SlackService event handlers) as a state machine.                 *)
(*                                                                         *)
(* The datastore is modelled with PostgreSQL semantics (the default        *)
(* DATABASE_URL): READ COMMITTED, a session sees the committed rows plus   *)
(* its own flushed writes, an INSERT that meets an uncommitted row with    *)
(* the same unique key waits, one that meets a committed row fails, and an *)
(* UPDATE of a row another open transaction has updated waits.  Time       *)
(* stamps (created_at, updated_at, first_used, last_used) are left out.    *)
(***************************************************************************)
EXTENDS Integers, Sequences, FiniteSets, TLC

\* number of handlers (sessions) started in one behaviour
MaxOps == 2

Sessions == {"s1", "s2"}
UserIds == {"U1", "U2"}
ChannelIds == {"C1"}
None == "None"
\* a NULL foreign key / "no row"
NullId == 0

Max(S) == CHOOSE x \in S : \A y \in S : y <= x

(***************************************************************************)
(* Emoji names and message texts are sequences of characters.              *)
(***************************************************************************)
NameChars == {"a", "A", "b"}

\* str.lower() on one character
Lower(c) == IF c = "A" THEN "a" ELSE IF c = "B" THEN "b" ELSE c

\* a lower() that changes nothing
LowerStrKeepsCase(s) == s

\* str.lower()
LowerStr(s) == [i \in 1..Len(s) |-> Lower(s[i])]

RECURSIVE LStrip(_)
LStrip(s) == IF s # <<>> /\ Head(s) = ":" THEN LStrip(Tail(s)) ELSE s

RECURSIVE RStrip(_)
RStrip(s) == IF s # <<>> /\ s[Len(s)] = ":" THEN RStrip(SubSeq(s, 1, Len(s) - 1)) ELSE s

\* emoji_name.strip(":")
StripColons(s) == RStrip(LStrip(s))

\* the name get_emoji_score looks up
NormalizeName(cfg, name) ==
    IF ~cfg.case_sensitive THEN LowerStr(StripColons(name)) ELSE StripColons(name)

\* the keys an entry of the emoji table can have, and the keys of "settings"
EntryKeys == {"score", "description"}
SettingsKeys == {"default_score", "track_all_emojis", "case_sensitive"}

\* self.emoji_config["emojis"].get(emoji_name), when "if emoji_config:" takes
\* it: the entries of the name that are not the empty dict
Configured(cfg, name) == {x \in cfg.emojis : x.name = NormalizeName(cfg, name) /\ x.keys # {}}

\* Config.get_emoji_score raises KeyError: a subscript names a key that the
\* configuration file does not have
GetEmojiScoreRaises(cfg, name) ==
    \/ "case_sensitive" \notin cfg.settings
    \/ \E x \in Configured(cfg, name) : "score" \notin x.keys
    \/ /\ Configured(cfg, name) = {}
       /\ \/ "track_all_emojis" \notin cfg.settings
          \/ cfg.track_all_emojis /\ "default_score" \notin cfg.settings

\* Config.get_emoji_score, what it returns when it does not raise
GetEmojiScore(cfg, name) ==
    LET e == Configured(cfg, name)
    IN  IF e # {} THEN (CHOOSE x \in e : TRUE).score
        ELSE IF cfg.track_all_emojis THEN cfg.default_score
        ELSE 0

\* Config.should_track_emoji
ShouldTrackEmoji(cfg, name) == GetEmojiScore(cfg, name) > 0

\* length of the run of name characters of t that starts at position i
RECURSIVE RunLen(_, _)
RunLen(t, i) == IF i <= Len(t) /\ t[i] \in NameChars THEN 1 + RunLen(t, i + 1) ELSE 0

\* re.findall(r":([a-zA-Z0-9_+-]+):", text), scanning from position i
RECURSIVE FindAllFrom(_, _)
FindAllFrom(t, i) ==
    IF i > Len(t) THEN <<>>
    ELSE LET n == RunLen(t, i + 1)
         IN  IF t[i] = ":" /\ n >= 1 /\ i + n + 1 <= Len(t) /\ t[i + n + 1] = ":"
             THEN <<SubSeq(t, i + 1, i + n)>> \o FindAllFrom(t, i + n + 2)
             ELSE FindAllFrom(t, i + 1)

\* a scan that starts at the second character
ExtractEmojisFromSecond(t) == FindAllFrom(t, 2)

\* EmojiService.extract_emojis_from_text
ExtractEmojisFromText(t) == FindAllFrom(t, 1)

(***************************************************************************)
(* Inputs.                                                                 *)
(***************************************************************************)
\* emoji_config.json as loaded at start-up
Configs ==
    { [emojis |-> {[name |-> <<"a">>, keys |-> EntryKeys, score |-> 1],
                   [name |-> <<"b">>, keys |-> EntryKeys, score |-> 0]},
       settings |-> SettingsKeys,
       default_score |-> 1, track_all_emojis |-> FALSE, case_sensitive |-> FALSE],
      [emojis |-> {[name |-> <<"a">>, keys |-> EntryKeys, score |-> 2]},
       settings |-> SettingsKeys,
       default_score |-> 1, track_all_emojis |-> TRUE, case_sensitive |-> TRUE] }

\* configuration files that leave out what the loader does not require: a
\* score, an entry's content, the default score; one with an upper-case key;
\* and one with a negative score
PolicyConfigs ==
    Configs \cup
    { [emojis |-> {[name |-> <<"a">>, keys |-> {"description"}, score |-> 0],
                   [name |-> <<"b">>, keys |-> EntryKeys, score |-> 3]},
       settings |-> SettingsKeys,
       default_score |-> 2, track_all_emojis |-> FALSE, case_sensitive |-> FALSE],
      [emojis |-> {[name |-> <<"a">>, keys |-> {}, score |-> 0]},
       settings |-> SettingsKeys,
       default_score |-> 2, track_all_emojis |-> TRUE, case_sensitive |-> FALSE],
      [emojis |-> {[name |-> <<"a">>, keys |-> EntryKeys, score |-> 2]},
       settings |-> SettingsKeys \ {"default_score"},
       default_score |-> 0, track_all_emojis |-> TRUE, case_sensitive |-> FALSE],
      [emojis |-> {[name |-> <<"A">>, keys |-> EntryKeys, score |-> 2],
                   [name |-> <<"b">>, keys |-> EntryKeys, score |-> 1]},
       settings |-> SettingsKeys,
       default_score |-> 1, track_all_emojis |-> FALSE, case_sensitive |-> FALSE],
      [emojis |-> {[name |-> <<"a">>, keys |-> EntryKeys, score |-> -1],
                   [name |-> <<"b">>, keys |-> EntryKeys, score |-> 1]},
       settings |-> SettingsKeys,
       default_score |-> 1, track_all_emojis |-> FALSE, case_sensitive |-> FALSE] }

\* longest emoji name passed to get_emoji_score
MaxNameLen == 3

PolicyAlphabet == {":", "a", "A", "b", "B"}

\* the names get_emoji_score is called with
PolicyNames == UNION { [1..k -> PolicyAlphabet] : k \in 1..MaxNameLen }

\* longest text passed to extract_emojis_from_text
MaxTextLen == 5

TextAlphabet == {":", "a", "b", " "}

\* the texts extract_emojis_from_text is called with
Texts == UNION { [1..k -> TextAlphabet] : k \in 0..MaxTextLen }

\* reaction names of reaction_added events
ReactionNames == { <<"a">>, <<":", "A", ":">>, <<"b">> }

\* texts of message events
MessageTexts == { <<":", "b", ":", ":", "A", ":">>, <<":", "a", ":", ":", "a", ":">>, <<"a", "b">> }

AllNames ==
    ReactionNames \cup
    UNION { {ExtractEmojisFromText(t)[i] : i \in 1..Len(ExtractEmojisFromText(t))} : t \in MessageTexts }

\* profiles carried by user_change events
UserProfiles ==
    { [email |-> "e1", display_name |-> None, real_name |-> None, is_bot |-> FALSE],
      [email |-> "e2", display_name |-> "d1", real_name |-> None, is_bot |-> FALSE],
      [email |-> None, display_name |-> None, real_name |-> "r1", is_bot |-> TRUE] }

\* channel data carried by channel_created / channel_rename events
ChannelProfiles ==
    { [name |-> "n1", is_private |-> TRUE, is_archived |-> FALSE],
      [name |-> None, is_private |-> FALSE, is_archived |-> TRUE] }

NoUserProfile == [email |-> None, display_name |-> None, real_name |-> None, is_bot |-> FALSE]
NoChannelProfile == [name |-> None, is_private |-> FALSE, is_archived |-> FALSE]

(***************************************************************************)
(* Tables (models.py).                                                     *)
(***************************************************************************)
\* class User
UserRow(id, slack_id, p) ==
    [id |-> id, slack_id |-> slack_id, email |-> p.email, display_name |-> p.display_name,
     real_name |-> p.real_name, is_bot |-> p.is_bot]

\* class Channel
ChannelRow(id, slack_id, p) ==
    [id |-> id, slack_id |-> slack_id, name |-> p.name, is_private |-> p.is_private,
     is_archived |-> p.is_archived]

\* the columns of class EmojiUsage (created_at left out)
EmojiUsageColumns ==
    {"id", "user_id", "channel_id", "emoji_name", "emoji_score", "usage_type", "message_ts",
     "target_user_id"}

\* class EmojiStats, as _update_emoji_stats creates it
NewStatsRow(user_id, emoji_name) ==
    [id |-> NullId, user_id |-> user_id, emoji_name |-> emoji_name, given_count |-> 0,
     given_score |-> 0, received_count |-> 0, received_score |-> 0]

NoUserRow == UserRow(NullId, None, NoUserProfile)
NoChannelRow == ChannelRow(NullId, None, NoChannelProfile)

EmptyDb == [users |-> {}, channels |-> {}, usage |-> {}, stats |-> {}]

\* what a session has flushed (users .. stats: INSERTs; *Patch: UPDATEs of
\* committed rows) and what it has add()ed but not flushed (added*)
EmptyTx ==
    [users |-> {}, channels |-> {}, usage |-> {}, stats |-> {},
     userPatch |-> {}, chanPatch |-> {}, statsPatch |-> {},
     addedUsage |-> <<>>, addedStats |-> <<>>]

\* an UPDATE: the columns it sets and their values
ApplyPatch(row, p) == [f \in DOMAIN row |-> IF f \in p.cols THEN p.vals[f] ELSE row[f]]

ApplyPatches(rows, patches) ==
    { IF \E p \in patches : p.id = r.id
      THEN ApplyPatch(r, CHOOSE p \in patches : p.id = r.id)
      ELSE r : r \in rows }

ChangedCols(old, new) == {f \in DOMAIN old : old[f] # new[f]}

\* the UPDATE of row old to new, merged into the session's earlier UPDATEs
AddPatch(patches, old, new) ==
    LET prev == {p \in patches : p.id = old.id}
        cols == ChangedCols(old, new) \cup UNION {p.cols : p \in prev}
    IN  (patches \ prev) \cup {[id |-> old.id, cols |-> cols, vals |-> new]}

(***************************************************************************)
(* State.                                                                  *)
(***************************************************************************)
VARIABLES
    config,     \* the Config singleton (config.py:96), read-only after start-up
    db,         \* the committed tables
    tx,         \* per session: its open transaction
    sess,       \* per session: the handler it runs and where it is
    opsBegun,   \* handlers started so far
    latest,     \* history: per external id the most recent non-null value
                \* supplied for each profile field by a committed upsert
    reply       \* the last call of a read path or of a pure function, and
                \* what it returned

vars == <<config, db, tx, sess, opsBegun, latest, reply>>

\* lookup: what self.web_client.users_info does in create_or_update_user
\* ("none": the service has no web_client), dir: the profile it returns
NoOp ==
    [kind |-> "none", id |-> None, emojis |-> <<>>, usage_type |-> None, channel |-> None,
     target |-> None, uprof |-> NoUserProfile, cprof |-> NoChannelProfile,
     lookup |-> "none", dir |-> NoUserProfile]

\* who reacts to whose message in the reaction_added events (None: the
\* author could not be fetched)
ReactionPairs == { <<"U1", None>>, <<"U1", "U1">>, <<"U1", "U2">>, <<"U2", "U1">> }

\* SlackService._handle_reaction_added: the call it makes
ReactionOps ==
    { [NoOp EXCEPT !.kind = "reaction", !.id = p[1], !.emojis = <<e>>,
                   !.usage_type = "reaction", !.channel = "C1", !.target = p[2]] :
        p \in ReactionPairs, e \in ReactionNames }
    \cup { [NoOp EXCEPT !.kind = "reaction", !.id = "U1", !.emojis = << <<"a">> >>,
                        !.usage_type = "reaction"] }

\* SlackService._handle_message: the calls it makes
MessageOps ==
    { [NoOp EXCEPT !.kind = "message", !.id = "U2", !.emojis = ExtractEmojisFromText(t),
                   !.usage_type = "message", !.channel = c] :
        t \in MessageTexts, c \in ChannelIds }

\* SlackService._handle_user_change
UserChangeOps ==
    { [NoOp EXCEPT !.kind = "user_change", !.id = u, !.uprof = p] :
        u \in UserIds, p \in UserProfiles }

\* SlackService._handle_channel_change
ChannelChangeOps ==
    { [NoOp EXCEPT !.kind = "channel_change", !.id = c, !.cprof = p] :
        c \in ChannelIds, p \in ChannelProfiles }

Ops == ReactionOps \cup MessageOps \cup UserChangeOps \cup ChannelChangeOps

\* what the directory (users.info) holds for a user
DirectoryProfile == [email |-> "e3", display_name |-> "d3", real_name |-> None, is_bot |-> TRUE]

Lookups == {"none", "raises", "not_ok", "ok"}

\* direct calls of track_emoji_usage inside get_db_session, as
\* create_sample_data makes them, with a usage kind and a target
TrackCallOps ==
    { [NoOp EXCEPT !.kind = "track_call", !.id = "U1", !.emojis = <<e>>, !.usage_type = k,
                   !.channel = "C1", !.target = t] :
        e \in { <<"a">>, <<"b">> }, k \in {"reaction", "message"}, t \in {None, "U2"} }

\* direct calls of create_or_update_user(slack_id, email=...) on a service
\* with or without a web_client; is_bot is not passed
UpsertCallOps ==
    { [NoOp EXCEPT !.kind = "upsert_call", !.id = "U1", !.uprof.email = e, !.lookup = l,
                   !.dir = IF l = "ok" THEN DirectoryProfile ELSE NoUserProfile] :
        e \in {None, "e1"}, l \in Lookups }

CallOps == TrackCallOps \cup UpsertCallOps

NoLatest ==
    [users |-> [u \in UserIds |-> [seen |-> FALSE, email |-> None, display_name |-> None,
                                   real_name |-> None]],
     channels |-> [c \in ChannelIds |-> [seen |-> FALSE, name |-> None]]]

\* no call of a read path or pure function has been made
NoReply == [fn |-> "none"]

IdleSession ==
    [pc |-> "idle", op |-> NoOp, idx |-> 1, stage |-> "none",
     loadedUser |-> NoUserRow, loadedChan |-> NoChannelRow,
     user_id |-> NullId, channel_id |-> NullId, target_id |-> NullId,
     outcome |-> "none", result |-> "none", upserted |-> "none",
     before |-> EmptyDb, wrote |-> FALSE, overlap |-> FALSE, calls |-> <<>>]

Init ==
    /\ config \in Configs
    /\ db = EmptyDb
    /\ tx = [s \in Sessions |-> EmptyTx]
    /\ sess = [s \in Sessions |-> IdleSession]
    /\ opsBegun = 0
    /\ latest = NoLatest
    /\ reply = NoReply

(***************************************************************************)
(* What a session sees, and the datastore's rules.                         *)
(***************************************************************************)
ViewUsers(s) == ApplyPatches(db.users, tx[s].userPatch) \cup tx[s].users
ViewChannels(s) == ApplyPatches(db.channels, tx[s].chanPatch) \cup tx[s].channels
ViewStats(s) == ApplyPatches(db.stats, tx[s].statsPatch) \cup tx[s].stats

\* query(...).filter(...).first(): the matching row, or none
First(rows, none) == IF rows = {} THEN none ELSE CHOOSE r \in rows : \A q \in rows : r.id <= q.id

\* self.db.query(User).filter(User.slack_id == slack_id).first()
QueryUser(s, slack_id) == First({r \in ViewUsers(s) : r.slack_id = slack_id}, NoUserRow)

\* self.db.query(Channel).filter(Channel.slack_id == slack_id).first()
QueryChannel(s, slack_id) == First({r \in ViewChannels(s) : r.slack_id = slack_id}, NoChannelRow)

\* the next value of a table's id sequence
NextId(committed, pending) == 1 + Max({0} \cup {r.id : r \in committed \cup pending})

PendingUsers == UNION {tx[t].users : t \in Sessions}
PendingChannels == UNION {tx[t].channels : t \in Sessions}
PendingUsage == UNION {tx[t].usage : t \in Sessions}
PendingStats == UNION {tx[t].stats : t \in Sessions}

\* the INSERTs of a flush: the rows add()ed so far get their ids
RECURSIVE WithIds(_, _)
WithIds(rows, next) ==
    IF rows = <<>> THEN {}
    ELSE {[Head(rows) EXCEPT !.id = next]} \cup WithIds(Tail(rows), next + 1)

\* Session.flush(): the add()ed usage and stats rows are inserted
Flush(t) ==
    [t EXCEPT !.usage = @ \cup WithIds(t.addedUsage, NextId(db.usage, PendingUsage)),
              !.stats = @ \cup WithIds(t.addedStats, NextId(db.stats, PendingStats)),
              !.addedUsage = <<>>, !.addedStats = <<>>]

\* session.commit(): flush, then the transaction's writes become the committed ones
Committed(d, t) ==
    LET f == Flush(t)
    IN  [users |-> ApplyPatches(d.users, f.userPatch) \cup f.users,
         channels |-> ApplyPatches(d.channels, f.chanPatch) \cup f.channels,
         usage |-> d.usage \cup f.usage,
         stats |-> ApplyPatches(d.stats, f.statsPatch) \cup f.stats]

\* a rollback that keeps what the transaction wrote
RolledBackKeeps(d, t) == Committed(d, t)

\* session.rollback(): nothing of the transaction stays
RolledBack(d, t) == d

(***************************************************************************)
(* EmojiService: identity upserts.                                         *)
(***************************************************************************)
\* an assignment without the "is not None" test
SuppliedAlways(old, new) == new

\* "if email is not None: user.email = email"
Supplied(old, new) == IF new # None THEN new ELSE old

\* create_or_update_user, lines 38-59: the directory lookup fills the
\* arguments that were not given and sets is_bot, when the service has a
\* web_client and the response is ok; an exception or a response that is not
\* ok leaves the arguments as they are
Enriched(p, o) ==
    IF o.lookup = "ok"
    THEN [email |-> IF p.email = None THEN o.dir.email ELSE p.email,
          display_name |-> IF p.display_name = None THEN o.dir.display_name ELSE p.display_name,
          real_name |-> IF p.real_name = None THEN o.dir.real_name ELSE p.real_name,
          is_bot |-> o.dir.is_bot]
    ELSE p

\* create_or_update_user, the branch for an existing user
UpdatedUser(user, p) ==
    [user EXCEPT !.email = Supplied(@, p.email),
                 !.display_name = Supplied(@, p.display_name),
                 !.real_name = Supplied(@, p.real_name),
                 !.is_bot = p.is_bot]

\* create_or_update_channel, the branch for an existing channel
UpdatedChannel(channel, p) ==
    [channel EXCEPT !.name = Supplied(@, p.name),
                    !.is_private = p.is_private,
                    !.is_archived = p.is_archived]

\* the arguments of the create_or_update_user call session s is in
UserArgs(s) ==
    LET o == sess[s].op
    IN  IF sess[s].stage = "direct" THEN [slack_id |-> o.id, prof |-> o.uprof]
        ELSE IF sess[s].stage = "target" THEN [slack_id |-> o.target, prof |-> NoUserProfile]
        ELSE [slack_id |-> o.id, prof |-> NoUserProfile]

\* the arguments of the create_or_update_channel call session s is in
ChannelArgs(s) ==
    LET o == sess[s].op
    IN  IF sess[s].stage = "direct" THEN [slack_id |-> o.id, prof |-> o.cprof]
        ELSE [slack_id |-> o.channel, prof |-> NoChannelProfile]

\* the unique index on users.slack_id / channels.slack_id meets a committed row
UserKeyTaken(slack_id) == \E r \in db.users : r.slack_id = slack_id
ChannelKeyTaken(slack_id) == \E r \in db.channels : r.slack_id = slack_id

OwnUser(s, id) == \E r \in tx[s].users : r.id = id
OwnChannel(s, id) == \E r \in tx[s].channels : r.id = id

\* the statement session s is about to flush waits for a lock session t holds
WaitsFor(s, t) ==
    /\ s # t
    /\ \/ /\ sess[s].pc = "user_flush"
          /\ IF sess[s].loadedUser.id = NullId
             THEN /\ ~UserKeyTaken(UserArgs(s).slack_id)
                  /\ \E r \in tx[t].users : r.slack_id = UserArgs(s).slack_id
             ELSE /\ ~OwnUser(s, sess[s].loadedUser.id)
                  /\ \E p \in tx[t].userPatch : p.id = sess[s].loadedUser.id
       \/ /\ sess[s].pc = "chan_flush"
          /\ IF sess[s].loadedChan.id = NullId
             THEN /\ ~ChannelKeyTaken(ChannelArgs(s).slack_id)
                  /\ \E r \in tx[t].channels : r.slack_id = ChannelArgs(s).slack_id
             ELSE /\ ~OwnChannel(s, sess[s].loadedChan.id)
                  /\ \E p \in tx[t].chanPatch : p.id = sess[s].loadedChan.id

Blocked(s) == \E t \in Sessions : WaitsFor(s, t)

(***************************************************************************)
(* EmojiService: recording.                                                *)
(***************************************************************************)
\* a skip test that lets score 0 through
IsSkippedBelowZero(score) == score < 0

\* "if emoji_score == 0: return None"
IsSkipped(score) == score = 0

\* the keyword arguments track_emoji_usage passes to EmojiUsage(...)
EmojiUsageKwargs ==
    {"user_id", "channel_id", "emoji_name", "emoji_score", "usage_type", "message_ts",
     "message_text", "target_user_id"}

\* the declarative constructor: a keyword that is no attribute of the class
\* raises TypeError
ConstructorRaises(kwargs) == kwargs \ EmojiUsageColumns # {}

\* the stats rows a query of a session with transaction t gets: autoflush is
\* off, so rows add()ed and not yet flushed are not among them
QueryStats(t, user_id, emoji_name) ==
    First({r \in ApplyPatches(db.stats, t.statsPatch) \cup t.stats :
             r.user_id = user_id /\ r.emoji_name = emoji_name},
          NewStatsRow(user_id, emoji_name))

\* "stats.given_count = (stats.given_count or 0) + 1" and its siblings
Bumped(stats, score, stat_type) ==
    IF stat_type = "given"
    THEN [stats EXCEPT !.given_count = @ + 1, !.given_score = @ + score]
    ELSE IF stat_type = "received"
    THEN [stats EXCEPT !.received_count = @ + 1, !.received_score = @ + score]
    ELSE stats

\* EmojiService._update_emoji_stats, on transaction t
UpdateEmojiStats(t, user_id, emoji_name, score, stat_type) ==
    LET stats == QueryStats(t, user_id, emoji_name)
        new == Bumped(stats, score, stat_type)
    IN  IF stats.id = NullId THEN [t EXCEPT !.addedStats = Append(@, new)]
        ELSE IF stats \in t.stats THEN [t EXCEPT !.stats = (@ \ {stats}) \cup {new}]
        ELSE [t EXCEPT !.statsPatch = AddPatch(@, stats, new)]

\* track_emoji_usage from "usage = EmojiUsage(...)" on, when the constructor
\* returns: the usage row is add()ed, then the given and received updates
Recorded(s, score) ==
    LET c == sess[s]
        name == c.op.emojis[c.idx]
        usage == [id |-> NullId, user_id |-> c.user_id, channel_id |-> c.channel_id,
                  emoji_name |-> name, emoji_score |-> score,
                  usage_type |-> c.op.usage_type, target_user_id |-> c.target_id]
        t1 == [tx[s] EXCEPT !.addedUsage = Append(@, usage)]
        t2 == UpdateEmojiStats(t1, c.user_id, name, score, "given")
    IN  IF c.target_id # NullId
        THEN UpdateEmojiStats(t2, c.target_id, name, score, "received")
        ELSE t2

(***************************************************************************)
(* The steps of a handler.  Each handler runs inside                       *)
(* "with get_db_session() as db": an exception in the body rolls the       *)
(* transaction back and is re-raised; otherwise the session commits.       *)
(***************************************************************************)
\* where a handler goes after one track_emoji_usage call returned
AfterTrack(c) ==
    IF c.idx < Len(c.op.emojis)
    THEN [c EXCEPT !.pc = "track", !.idx = @ + 1, !.stage = "none"]
    ELSE [c EXCEPT !.pc = "commit", !.stage = "none"]

\* where track_emoji_usage goes after the actor (and channel) are resolved
AfterActor(c) ==
    IF c.op.channel # None THEN [c EXCEPT !.pc = "chan_query", !.stage = "channel"]
    ELSE IF c.op.target # None THEN [c EXCEPT !.pc = "user_query", !.stage = "target"]
    ELSE [c EXCEPT !.pc = "construct", !.stage = "none"]

\* a continuation that resolves the target of reactions only
AfterChannelReactionOnly(c) ==
    IF c.stage = "direct" THEN [c EXCEPT !.pc = "commit", !.stage = "none"]
    ELSE IF c.op.target # None /\ c.op.usage_type = "reaction"
    THEN [c EXCEPT !.pc = "user_query", !.stage = "target"]
    ELSE [c EXCEPT !.pc = "construct", !.stage = "none"]

\* where track_emoji_usage goes after the channel is resolved
AfterChannel(c) ==
    IF c.stage = "direct" THEN [c EXCEPT !.pc = "commit", !.stage = "none"]
    ELSE IF c.op.target # None THEN [c EXCEPT !.pc = "user_query", !.stage = "target"]
    ELSE [c EXCEPT !.pc = "construct", !.stage = "none"]

AfterUser(c) ==
    IF c.stage = "direct" THEN [c EXCEPT !.pc = "commit", !.stage = "none"]
    ELSE IF c.stage = "actor" THEN AfterActor(c)
    ELSE [c EXCEPT !.pc = "construct", !.stage = "none"]

\* the handler's first step inside the with block
FirstStep(o) ==
    IF o.kind \in {"user_change", "upsert_call"} THEN [pc |-> "user_query", stage |-> "direct"]
    ELSE IF o.kind = "channel_change" THEN [pc |-> "chan_query", stage |-> "direct"]
    ELSE IF o.emojis = <<>> THEN [pc |-> "commit", stage |-> "none"]
    ELSE [pc |-> "track", stage |-> "none"]

\* session.close(): the handler is over; what it did is kept for the record
\* until the next handler starts
EndedRecord(c) ==
    [IdleSession EXCEPT !.op = c.op, !.outcome = c.outcome, !.result = c.result,
                        !.before = c.before, !.wrote = c.wrote, !.overlap = c.overlap,
                        !.calls = c.calls]

\* get_db_session, the except clause: rollback, re-raise, close
Fail(s, error) ==
    /\ db' = RolledBack(db, tx[s])
    /\ tx' = [tx EXCEPT ![s] = EmptyTx]
    /\ sess' = [sess EXCEPT ![s] = EndedRecord([@ EXCEPT !.outcome = error, !.result = "raised",
                                                   !.wrote = (tx[s] # EmptyTx)])]
    /\ UNCHANGED <<config, reply, opsBegun, latest>>

\* a handler opens its session: session = SessionLocal()
Start(s, o) ==
    /\ sess[s].pc = "idle"
    /\ opsBegun < MaxOps
    /\ LET busy == \E t \in Sessions \ {s} : sess[t].pc # "idle"
       IN  sess' = [t \in Sessions |->
                      IF t = s
                      THEN [IdleSession EXCEPT !.pc = FirstStep(o).pc,
                                               !.stage = FirstStep(o).stage,
                                               !.op = o, !.before = db, !.overlap = busy]
                      ELSE IF sess[t].pc # "idle" THEN [sess[t] EXCEPT !.overlap = TRUE]
                      ELSE IdleSession]
    /\ tx' = [tx EXCEPT ![s] = EmptyTx]
    /\ opsBegun' = opsBegun + 1
    /\ UNCHANGED <<config, reply, db, latest>>

Begin(s) == \E o \in Ops : Start(s, o)

\* the handlers run one after another
BeginAlone(s) ==
    /\ s = CHOOSE t \in Sessions : TRUE
    /\ \A t \in Sessions : sess[t].pc = "idle"
    /\ \E o \in Ops : Start(s, o)

\* history: a track_emoji_usage call that was not skipped
Call(name, score) == [name |-> name, score |-> score]

\* track_emoji_usage, lines 128-132: the score, and the skip
TrackScore(s) ==
    /\ sess[s].pc = "track"
    /\ LET c == sess[s]
           name == c.op.emojis[c.idx]
           score == GetEmojiScore(config, name)
       IN  /\ ~GetEmojiScoreRaises(config, name)
           /\ IF IsSkipped(score)
              THEN sess' = [sess EXCEPT ![s] = AfterTrack([c EXCEPT !.result = "skipped"])]
              ELSE sess' = [sess EXCEPT ![s] = [c EXCEPT !.pc = "user_query",
                                                         !.stage = "actor",
                                                         !.result = "none",
                                                         !.calls = Append(@, Call(name, score))]]
    /\ UNCHANGED <<config, reply, db, tx, opsBegun, latest>>

\* create_or_update_user, line 36: the lookup
UserQuery(s) ==
    /\ sess[s].pc = "user_query"
    /\ sess' = [sess EXCEPT ![s] = [@ EXCEPT !.pc = "user_flush", !.upserted = "none",
                                             !.loadedUser = QueryUser(s, UserArgs(s).slack_id)]]
    /\ UNCHANGED <<config, reply, db, tx, opsBegun, latest>>

\* create_or_update_user, lines 61-85: update or create, then flush
UserFlush(s) ==
    /\ sess[s].pc = "user_flush"
    /\ ~Blocked(s)
    /\ LET c == sess[s]
           a == UserArgs(s)
           old == c.loadedUser
           id == IF old.id = NullId THEN NextId(db.users, PendingUsers) ELSE old.id
           prof == Enriched(a.prof, c.op)
           new == IF old.id = NullId THEN UserRow(id, a.slack_id, prof)
                  ELSE UpdatedUser(old, prof)
           t == IF old.id = NullId THEN [tx[s] EXCEPT !.users = @ \cup {new}]
                ELSE IF OwnUser(s, old.id)
                THEN [tx[s] EXCEPT !.users = {r \in @ : r.id # old.id} \cup {new}]
                ELSE [tx[s] EXCEPT !.userPatch = AddPatch(@, old, new)]
           d == IF c.stage = "target" THEN [c EXCEPT !.target_id = id]
                ELSE [c EXCEPT !.user_id = id]
       IN  IF old.id = NullId /\ UserKeyTaken(a.slack_id)
           THEN Fail(s, "IntegrityError")
           ELSE /\ tx' = [tx EXCEPT ![s] = Flush(t)]
                /\ sess' = [sess EXCEPT ![s] = AfterUser([d EXCEPT !.upserted = "user"])]
                /\ UNCHANGED <<config, reply, db, opsBegun, latest>>

\* create_or_update_channel, line 95: the lookup
ChannelQuery(s) ==
    /\ sess[s].pc = "chan_query"
    /\ sess' = [sess EXCEPT ![s] = [@ EXCEPT !.pc = "chan_flush", !.upserted = "none",
                                             !.loadedChan = QueryChannel(s, ChannelArgs(s).slack_id)]]
    /\ UNCHANGED <<config, reply, db, tx, opsBegun, latest>>

\* create_or_update_channel, lines 97-115: update or create, then flush
ChannelFlush(s) ==
    /\ sess[s].pc = "chan_flush"
    /\ ~Blocked(s)
    /\ LET c == sess[s]
           a == ChannelArgs(s)
           old == c.loadedChan
           id == IF old.id = NullId THEN NextId(db.channels, PendingChannels) ELSE old.id
           new == IF old.id = NullId THEN ChannelRow(id, a.slack_id, a.prof)
                  ELSE UpdatedChannel(old, a.prof)
           t == IF old.id = NullId THEN [tx[s] EXCEPT !.channels = @ \cup {new}]
                ELSE IF OwnChannel(s, old.id)
                THEN [tx[s] EXCEPT !.channels = {r \in @ : r.id # old.id} \cup {new}]
                ELSE [tx[s] EXCEPT !.chanPatch = AddPatch(@, old, new)]
       IN  IF old.id = NullId /\ ChannelKeyTaken(a.slack_id)
           THEN Fail(s, "IntegrityError")
           ELSE /\ tx' = [tx EXCEPT ![s] = Flush(t)]
                /\ sess' = [sess EXCEPT ![s] =
                              AfterChannel([c EXCEPT !.channel_id = id, !.upserted = "channel"])]
                /\ UNCHANGED <<config, reply, db, opsBegun, latest>>

\* track_emoji_usage, lines 147-179: the usage row and the statistics
Construct(s) ==
    /\ sess[s].pc = "construct"
    /\ IF ConstructorRaises(EmojiUsageKwargs)
       THEN Fail(s, "TypeError")
       ELSE /\ tx' = [tx EXCEPT ![s] =
                        Recorded(s, GetEmojiScore(config, sess[s].op.emojis[sess[s].idx]))]
            /\ sess' = [sess EXCEPT ![s] = AfterTrack([@ EXCEPT !.result = "recorded"])]
            /\ UNCHANGED <<config, reply, db, opsBegun, latest>>

\* the most recent non-null value supplied for a field
MostRecent(old, new) == IF new = None THEN old ELSE new

\* the history of supplied profile values, after the handler of session
\* record c committed: the ids its upserts resolved, and what they supplied
LatestAfter(l, c) ==
    LET o == c.op
        prof == Enriched(o.uprof, o)
        direct == o.kind \in {"user_change", "upsert_call"}
        tracked == o.kind \in {"reaction", "message", "track_call"} /\ c.calls # <<>>
        touchedUsers == IF direct THEN {o.id}
                        ELSE IF tracked THEN {o.id, o.target} \ {None}
                        ELSE {}
        touchedChannels == IF o.kind = "channel_change" THEN {o.id}
                           ELSE IF tracked THEN {o.channel} \ {None}
                           ELSE {}
    IN  [users |-> [u \in UserIds |->
                      IF u \notin touchedUsers THEN l.users[u]
                      ELSE IF direct
                      THEN [seen |-> TRUE,
                            email |-> MostRecent(l.users[u].email, prof.email),
                            display_name |-> MostRecent(l.users[u].display_name, prof.display_name),
                            real_name |-> MostRecent(l.users[u].real_name, prof.real_name)]
                      ELSE [l.users[u] EXCEPT !.seen = TRUE]],
         channels |-> [ch \in ChannelIds |->
                      IF ch \notin touchedChannels THEN l.channels[ch]
                      ELSE IF o.kind = "channel_change"
                      THEN [seen |-> TRUE, name |-> MostRecent(l.channels[ch].name, o.cprof.name)]
                      ELSE [l.channels[ch] EXCEPT !.seen = TRUE]]]

\* get_db_session, after the body: session.commit(), session.close()
Commit(s) ==
    /\ sess[s].pc = "commit"
    /\ db' = Committed(db, tx[s])
    /\ tx' = [tx EXCEPT ![s] = EmptyTx]
    /\ sess' = [sess EXCEPT ![s] = EndedRecord([@ EXCEPT !.outcome = "committed"])]
    /\ latest' = LatestAfter(latest, sess[s])
    /\ UNCHANGED <<config, reply, opsBegun>>

\* two sessions wait for each other's locks: the datastore aborts one of them
DeadlockDetected(s) ==
    /\ \E t \in Sessions : WaitsFor(s, t) /\ WaitsFor(t, s)
    /\ Fail(s, "DeadlockDetected")

Step(s) ==
    \/ TrackScore(s)
    \/ UserQuery(s)
    \/ UserFlush(s)
    \/ ChannelQuery(s)
    \/ ChannelFlush(s)
    \/ Construct(s)
    \/ Commit(s)

Next == \E s \in Sessions : Begin(s) \/ Step(s) \/ DeadlockDetected(s)

\* handlers may overlap
Spec == Init /\ [][Next]_vars

NextSeq == \E s \in Sessions : BeginAlone(s) \/ Step(s)

\* handlers run one after another
SpecSeq == Init /\ [][NextSeq]_vars

\* a direct call of the service starts, alone
BeginCall(s) ==
    /\ s = CHOOSE t \in Sessions : TRUE
    /\ \A t \in Sessions : sess[t].pc = "idle"
    /\ \E o \in CallOps : Start(s, o)

NextCalls == \E s \in Sessions : BeginCall(s) \/ Step(s)

\* direct calls of EmojiService, one after another
SpecCalls == Init /\ [][NextCalls]_vars

(***************************************************************************)
(* The pure functions: the emoji policy and the extraction of emoji names, *)
(* called on every configuration and input of the bounded sets.            *)
(***************************************************************************)
InitPolicy ==
    /\ config \in PolicyConfigs
    /\ db = EmptyDb
    /\ tx = [s \in Sessions |-> EmptyTx]
    /\ sess = [s \in Sessions |-> IdleSession]
    /\ opsBegun = 0
    /\ latest = NoLatest
    /\ reply = NoReply

\* config.get_emoji_score(name)
GetEmojiScoreCall ==
    /\ reply = NoReply
    /\ \E n \in PolicyNames :
          reply' = [fn |-> "get_emoji_score", name |-> n,
                    raised |-> GetEmojiScoreRaises(config, n),
                    value |-> IF GetEmojiScoreRaises(config, n) THEN 0
                              ELSE GetEmojiScore(config, n)]
    /\ UNCHANGED <<config, db, tx, sess, opsBegun, latest>>

\* config.should_track_emoji(name)
ShouldTrackEmojiCall ==
    /\ reply = NoReply
    /\ \E n \in PolicyNames :
          reply' = [fn |-> "should_track_emoji", name |-> n,
                    raised |-> GetEmojiScoreRaises(config, n),
                    value |-> IF GetEmojiScoreRaises(config, n) THEN FALSE
                              ELSE ShouldTrackEmoji(config, n)]
    /\ UNCHANGED <<config, db, tx, sess, opsBegun, latest>>

\* the characters of a user id, [A-Z0-9], and of a name after "@",
\* [a-zA-Z0-9._-], among the characters of the texts
IdChars == {"A", "B", "1"}
DisplayChars == IdChars \cup {"a", "b"}

\* message texts with mentions
MentionTexts ==
    { <<>>,
      <<"<", "@", "A", "1", ">">>,
      <<"<", "@", "A", "1", "|", "a", " ", "b", ">">>,
      <<"@", "a">>,
      <<"@", "b", " ", "<", "@", "B", "1", ">">>,
      <<"<", "@", "B", "1", ">", " ", "<", "@", "A", "1", ">", " ", "<", "@", "B", "1", ">">>,
      <<"<", "@", "a", "1", ">">>,
      <<"<", "@", "A", "1">>,
      <<"<", "@", "A", "1", "|", ">">>,
      <<"@", "a", "b", " ", "@", "a">>,
      <<"@", "B", " ", "@", "1">>,
      <<"<", "@", "A", "1", ">", "@", "a">> }

\* a Python value as an element of a payload list or as a returned id: a
\* string (v its characters), an int, None, or a list (unhashable)
PayloadValues ==
    { [t |-> "str", v |-> <<"A", "1">>], [t |-> "str", v |-> <<"B", "1">>],
      [t |-> "int", v |-> <<>>], [t |-> "none", v |-> <<>>], [t |-> "list", v |-> <<>>] }

\* event payloads.  blocks: absent, None, or a list of blocks; a block is a
\* value that is not a dict ("junk"), a dict of another type, or a rich_text
\* block whose sections hold the elements listed (type "user" with user_id
\* uid, type "text", or a value that is not a dict).  mentions and
\* user_mentions: absent, a value that is not a list, or a list of items; an
\* item is a value, or a dict (t "dict") with a "user" entry or without one
MentionPayloads ==
    LET absent == [t |-> "absent", items |-> <<>>]
        nouser == [t |-> "absent", v |-> <<>>]
        a1 == [t |-> "str", v |-> <<"A", "1">>]
        b1 == [t |-> "str", v |-> <<"B", "1">>]
        item(x) == [t |-> x.t, v |-> x.v, user |-> nouser]
        dict(u) == [t |-> "dict", v |-> <<>>, user |-> u]
        user(x) == [t |-> "user", uid |-> x]
        rich(e) == [t |-> "rich_text", elements |-> e]
        none == [shape |-> "none", blocks |-> absent, mentions |-> absent, user_mentions |-> absent]
        empty == [none EXCEPT !.shape = "dict"]
    IN  { none, empty, [none EXCEPT !.shape = "list"],
          [empty EXCEPT !.blocks = [t |-> "none", items |-> <<>>]],
          [empty EXCEPT !.mentions = [t |-> "str", items |-> <<>>],
                        !.user_mentions = [t |-> "str", items |-> <<>>]] }
        \cup { [empty EXCEPT !.blocks = [t |-> "list", items |-> b]] :
                 b \in { << rich(<<user(b1), [t |-> "text", uid |-> nouser], user(a1)>>) >>,
                         << [t |-> "other", elements |-> <<>>], rich(<<user(b1)>>), rich(<<user(b1)>>) >>,
                         << rich(<<user(b1), [t |-> "junk", uid |-> nouser], user(a1)>>) >>,
                         << rich(<<user(a1)>>), [t |-> "junk", elements |-> <<>>], rich(<<user(b1)>>) >>,
                         << rich(<<user([t |-> "none", v |-> <<>>]), user([t |-> "list", v |-> <<>>])>>) >> } }
        \cup { [empty EXCEPT !.mentions = [t |-> "list", items |-> m]] :
                 m \in { <<item(a1), dict(b1), dict(nouser), item(a1)>>,
                         <<item([t |-> "int", v |-> <<>>]), item([t |-> "list", v |-> <<>>]), item(b1)>>,
                         <<dict([t |-> "none", v |-> <<>>])>>,
                         <<dict([t |-> "list", v |-> <<>>])>> } }
        \cup { [empty EXCEPT !.user_mentions = [t |-> "list", items |-> <<item(x), item(b1)>>]] :
                 x \in PayloadValues }
        \cup { [empty EXCEPT !.blocks = [t |-> "list", items |-> << rich(<<user(b1)>>), [t |-> "junk", elements |-> <<>>] >>],
                             !.mentions = [t |-> "list", items |-> <<item(a1)>>],
                             !.user_mentions = [t |-> "list", items |-> <<item(a1)>>]] }

\* what the service's web_client answers to users_list: status "none" (the
\* service has no web_client), "raises", "not_ok" or "ok" with the members
Directories ==
    LET member(id, name, display, real, skip) ==
            [id |-> id, name |-> name, display_name |-> display, real_name |-> real, skip |-> skip]
        members == << member(<<"A", "1">>, <<"a">>, <<>>, <<"a", "a", "b">>, FALSE),
                      member(<<"B", "1">>, <<"b">>, <<"a", "b">>, <<>>, FALSE),
                      member(<<"1">>, <<"b", "1">>, <<>>, <<"1", "a">>, FALSE),
                      member(<<"B">>, <<"b">>, <<>>, <<>>, TRUE) >>
    IN  { [status |-> st, members |-> IF st = "ok" THEN members ELSE <<>>] :
            st \in {"none", "raises", "not_ok", "ok"} }

\* re.findall and re.sub with r"<@([A-Z0-9]+)(?:\|[^>]+)?>" on text t from
\* position i: the ids matched, and the text without the matches
RECURSIVE FindSlackMentions(_, _)
FindSlackMentions(t, i) ==
    IF i > Len(t) THEN [ids |-> <<>>, rest |-> <<>>]
    ELSE LET run == {n \in 1..(Len(t) - i - 1) : \A k \in 1..n : t[i + 1 + k] \in IdChars}
             n == IF run = {} THEN 0 ELSE CHOOSE m \in run : \A x \in run : x <= m
             after == i + 2 + n
             closes == {j \in (after + 2)..Len(t) :
                           t[j] = ">" /\ \A k \in (after + 1)..(j - 1) : t[k] # ">"}
             end == IF after <= Len(t) /\ t[after] = ">" THEN after
                    ELSE IF after <= Len(t) /\ t[after] = "|" /\ closes # {}
                    THEN CHOOSE j \in closes : TRUE
                    ELSE 0
         IN  IF t[i] = "<" /\ i + 1 <= Len(t) /\ t[i + 1] = "@" /\ n >= 1 /\ end > 0
             THEN LET more == FindSlackMentions(t, end + 1)
                  IN  [ids |-> <<[t |-> "str", v |-> SubSeq(t, i + 2, i + 1 + n)]>> \o more.ids,
                       rest |-> more.rest]
             ELSE LET more == FindSlackMentions(t, i + 1)
                  IN  [ids |-> more.ids, rest |-> <<t[i]>> \o more.rest]

\* re.findall(r"@([a-zA-Z0-9._-]+)", t) from position i
RECURSIVE FindDisplayMentions(_, _)
FindDisplayMentions(t, i) ==
    IF i > Len(t) THEN <<>>
    ELSE LET run == {n \in 1..(Len(t) - i) : \A k \in 1..n : t[i + k] \in DisplayChars}
             n == IF run = {} THEN 0 ELSE CHOOSE m \in run : \A x \in run : x <= m
         IN  IF t[i] = "@" /\ n >= 1
             THEN <<SubSeq(t, i + 1, i + n)>> \o FindDisplayMentions(t, i + n + 1)
             ELSE FindDisplayMentions(t, i + 1)

\* the loop over payload.get("blocks", []) of _extract_mentions_from_payload:
\* the ids appended, and whether a block or element that is not a dict raised
RECURSIVE BlockMentions(_)
BlockMentions(blocks) ==
    IF blocks = <<>> THEN [ids |-> <<>>, raised |-> FALSE]
    ELSE LET b == Head(blocks)
             bad == {k \in 1..Len(b.elements) : b.elements[k].t = "junk"}
             stop == IF bad = {} THEN Len(b.elements) + 1 ELSE CHOOSE k \in bad : \A x \in bad : k <= x
             seen == SelectSeq(SubSeq(b.elements, 1, stop - 1),
                               LAMBDA e : e.t = "user" /\ e.uid.t \notin {"none", "absent"})
             own == [k \in 1..Len(seen) |-> seen[k].uid]
         IN  IF b.t = "junk" THEN [ids |-> <<>>, raised |-> TRUE]
             ELSE IF b.t # "rich_text" THEN BlockMentions(Tail(blocks))
             ELSE IF bad # {} THEN [ids |-> own, raised |-> TRUE]
             ELSE [ids |-> own \o BlockMentions(Tail(blocks)).ids,
                   raised |-> BlockMentions(Tail(blocks)).raised]

\* EmojiService._extract_mentions_from_payload: the ids collected; an
\* exception ends the collection and is swallowed
ExtractMentionsFromPayload(p) ==
    LET blocks == BlockMentions(p.blocks.items)
        picked == SelectSeq(p.mentions.items,
                            LAMBDA m : (m.t = "dict" /\ m.user.t # "absent") \/ m.t = "str")
        mentions == [k \in 1..Len(picked) |->
                        IF picked[k].t = "dict" THEN picked[k].user
                        ELSE [t |-> picked[k].t, v |-> picked[k].v]]
        user_mentions == [k \in 1..Len(p.user_mentions.items) |->
                            [t |-> p.user_mentions.items[k].t, v |-> p.user_mentions.items[k].v]]
    IN  IF p.shape = "list" \/ p.blocks.t = "none" THEN <<>>
        ELSE IF blocks.raised THEN blocks.ids
        ELSE blocks.ids
             \o (IF p.mentions.t = "list" THEN mentions ELSE <<>>)
             \o (IF p.user_mentions.t = "list" THEN user_mentions ELSE <<>>)

\* EmojiService._resolve_display_names_to_user_ids on directory answer dir
ResolveDisplayNamesToUserIds(dir, names) ==
    LET live == {k \in 1..Len(dir.members) : ~dir.members[k].skip}
        \* <field>_to_id[key]: the id of the last member entered under the key
        has(f, key) == {k \in live : dir.members[k][f] # <<>> /\ LowerStr(dir.members[k][f]) = key}
        get(f, key) == dir.members[CHOOSE k \in has(f, key) : \A x \in has(f, key) : x <= k].id
        IsIn(a, b) == \E j \in 0..(Len(b) - Len(a)) : SubSeq(b, j + 1, j + Len(a)) = a
        near(name) == {k \in live :
                          /\ dir.members[k].real_name # <<>>
                          /\ \/ IsIn(name, LowerStr(dir.members[k].real_name))
                             \/ IsIn(LowerStr(dir.members[k].real_name), name)}
        first(name) == CHOOSE k \in near(name) : \A x \in near(name) : k <= x
        found(n) == LET name == LowerStr(n)
                    IN  IF has("name", name) # {} THEN <<get("name", name)>>
                        ELSE IF has("display_name", name) # {} THEN <<get("display_name", name)>>
                        ELSE IF has("real_name", name) # {} THEN <<get("real_name", name)>>
                        ELSE IF near(name) # {}
                        THEN <<get("real_name", LowerStr(dir.members[first(name)].real_name))>>
                        ELSE <<>>
        RECURSIVE all(_)
        all(ns) == IF ns = <<>> THEN <<>> ELSE found(Head(ns)) \o all(Tail(ns))
    IN  IF dir.status # "ok" THEN <<>>
        ELSE [k \in 1..Len(all(names)) |-> [t |-> "str", v |-> all(names)[k]]]

\* a list() that keeps every element
KeepAll(ids) == ids

\* list(dict.fromkeys(user_ids)): the first occurrence of every element
Unique(ids) ==
    LET firsts == {k \in 1..Len(ids) : \A j \in 1..(k - 1) : ids[j] # ids[k]}
    IN  [n \in 1..Cardinality(firsts) |->
            ids[CHOOSE k \in firsts : Cardinality({j \in firsts : j <= k}) = n]]

\* EmojiService.extract_user_mentions(text, event_payload); dict.fromkeys
\* raises TypeError on an element that cannot be hashed
ExtractUserMentions(text, payload, dir) ==
    LET from_payload == IF payload.shape # "none" THEN ExtractMentionsFromPayload(payload) ELSE <<>>
        slack == FindSlackMentions(text, 1)
        display == FindDisplayMentions(slack.rest, 1)
        resolved == IF display # <<>> /\ dir.status # "none"
                    THEN ResolveDisplayNamesToUserIds(dir, display) ELSE <<>>
        user_ids == from_payload \o slack.ids \o resolved
        raised == \E k \in 1..Len(user_ids) : user_ids[k].t = "list"
    IN  [raised |-> raised, value |-> IF raised THEN <<>> ELSE Unique(user_ids)]

\* EmojiService.extract_user_mentions(text, event_payload)
ExtractUserMentionsCall ==
    /\ reply = NoReply
    /\ \E t \in MentionTexts, p \in MentionPayloads, d \in Directories :
          reply' = [fn |-> "extract_user_mentions", text |-> t, payload |-> p, dir |-> d,
                    raised |-> ExtractUserMentions(t, p, d).raised,
                    value |-> ExtractUserMentions(t, p, d).value]
    /\ UNCHANGED <<config, db, tx, sess, opsBegun, latest>>

\* EmojiService.extract_emojis_from_text(text)
ExtractCall ==
    /\ reply = NoReply
    /\ \E t \in Texts :
          reply' = [fn |-> "extract_emojis_from_text", text |-> t,
                    value |-> ExtractEmojisFromText(t)]
    /\ UNCHANGED <<config, db, tx, sess, opsBegun, latest>>

NextPolicy ==
    \/ GetEmojiScoreCall
    \/ ExtractCall
    \/ ExtractUserMentionsCall
    \/ ShouldTrackEmojiCall

SpecPolicy == InitPolicy /\ [][NextPolicy]_vars

(***************************************************************************)
(* The read paths of EmojiService, called on stored tables.  The tables    *)
(* are what recordings leave behind when they are stored: usage rows with  *)
(* the creation time the datastore gave them (func.now(), the start of the *)
(* inserting transaction, so the rows of one message handler share it),    *)
(* and the aggregate rows they add up to.  Where SQL leaves the order of   *)
(* rows open (equal sort values), a query may return any of the orders.    *)
(***************************************************************************)
\* largest limit a read path is called with
MaxLimit == 3

\* valid_sort_options of get_leaderboard
SortKeys == {"received_score", "received_count", "given_score", "given_count"}

\* the sort_by values get_leaderboard is called with
RequestedSortKeys == SortKeys \cup {"score"}

StoredUsers ==
    { UserRow(1, "U1", [email |-> "e1", display_name |-> "d1", real_name |-> None, is_bot |-> FALSE]),
      UserRow(2, "U2", NoUserProfile),
      UserRow(3, "U3", NoUserProfile) }

StoredChannels ==
    { ChannelRow(1, "C1", [name |-> "n1", is_private |-> FALSE, is_archived |-> FALSE]),
      ChannelRow(2, "C2", NoChannelProfile) }

\* the external ids the read paths are asked about: U4 and C3 have no row
AskedUserIds == {"U1", "U2", "U3", "U4"}
AskedChannelIds == {"C1", "C2", "C3"}

\* a row of emoji_usage
StoredEvent(id, user_id, channel_id, emoji_name, emoji_score, usage_type, target_user_id, created_at) ==
    [id |-> id, user_id |-> user_id, channel_id |-> channel_id, emoji_name |-> emoji_name,
     emoji_score |-> emoji_score, usage_type |-> usage_type, target_user_id |-> target_user_id,
     created_at |-> created_at]

\* events 2 and 3 come from one message, in one transaction
StoredEvents ==
    { StoredEvent(1, 1, 1, <<"a">>, 1, "reaction", 2, 1),
      StoredEvent(2, 1, 1, <<"b">>, 2, "message", NullId, 2),
      StoredEvent(3, 1, 1, <<"a">>, 1, "message", NullId, 2),
      StoredEvent(4, 2, NullId, <<"a">>, 1, "reaction", 1, 3),
      StoredEvent(5, 3, 1, <<"a">>, 1, "reaction", 2, 4),
      StoredEvent(6, 2, 1, <<"b">>, 2, "reaction", 3, 5) }

RECURSIVE SumField(_, _)
SumField(rows, f) ==
    IF rows = {} THEN 0
    ELSE LET r == CHOOSE x \in rows : TRUE IN r[f] + SumField(rows \ {r}, f)

\* the emoji_stats rows that the recordings of a set of events add up to: one
\* row for each (user, emoji) that gave or received
AggregateOf(events) ==
    LET given(u, e) == {x \in events : x.user_id = u /\ x.emoji_name = e}
        received(u, e) == {x \in events : x.target_user_id = u /\ x.emoji_name = e}
        index(e) == IF e = <<"a">> THEN 1 ELSE 2
        pairs == {<<x.user_id, x.emoji_name>> : x \in events}
                 \cup {<<x.target_user_id, x.emoji_name>> : x \in {y \in events : y.target_user_id # NullId}}
    IN  { [id |-> 2 * p[1] + index(p[2]), user_id |-> p[1], emoji_name |-> p[2],
           given_count |-> Cardinality(given(p[1], p[2])),
           given_score |-> SumField(given(p[1], p[2]), "emoji_score"),
           received_count |-> Cardinality(received(p[1], p[2])),
           received_score |-> SumField(received(p[1], p[2]), "emoji_score")] : p \in pairs }

\* the tables the read paths run on: the rows of a set of stored events and
\* the per-(user, emoji) totals of those events
StoredTables ==
    { [users |-> StoredUsers, channels |-> StoredChannels, usage |-> ev, stats |-> AggregateOf(ev)] :
        ev \in SUBSET StoredEvents }

InitRead ==
    /\ config \in Configs
    /\ db \in StoredTables
    /\ tx = [s \in Sessions |-> EmptyTx]
    /\ sess = [s \in Sessions |-> IdleSession]
    /\ opsBegun = 0
    /\ latest = NoLatest
    /\ reply = NoReply

Min(a, b) == IF a <= b THEN a ELSE b

\* the orders in which a query can return the rows of S
Perms(S) ==
    {f \in [1..Cardinality(S) -> S] : \A i, j \in 1..Cardinality(S) : i # j => f[i] # f[j]}

\* an ORDER BY that sorts upwards
AscBy(S, key) ==
    {f \in Perms(S) : \A i \in 1..(Cardinality(S) - 1) : key[f[i]] <= key[f[i + 1]]}

\* .order_by(desc(...)): the orders of the rows of S in which the sort value
\* (key, a function on S) never grows; rows of equal value come in any order
DescBy(S, key) ==
    {f \in Perms(S) : \A i \in 1..(Cardinality(S) - 1) : key[f[i]] >= key[f[i + 1]]}

\* .limit(n) and .offset(k)
Limit(rows, n) == SubSeq(rows, 1, Min(n, Len(rows)))
Offset(rows, k) == SubSeq(rows, k + 1, Len(rows))

\* func.sum(column) over rows: NULL over no rows
SqlSum(rows, f) == [null |-> rows = {}, value |-> SumField(rows, f)]

\* "x or 0"
OrZero(x) == IF x.null THEN 0 ELSE x.value

\* a fallback to another column
SortFieldGiven(sort_by) == IF sort_by \notin SortKeys THEN "given_score" ELSE sort_by

\* get_leaderboard, lines 294-305: the column the result is sorted by
SortField(sort_by) == IF sort_by \notin SortKeys THEN "received_score" ELSE sort_by

\* an outer join: every user, with or without aggregates
LeaderboardUsersOuter(d) == d.users

\* .join(EmojiStats, User.id == EmojiStats.user_id).group_by(User.id)
LeaderboardUsers(d) == {u \in d.users : \E r \in d.stats : r.user_id = u.id}

\* func.sum(EmojiStats.<f>) of the group of user u
UserTotal(d, u, f) == SqlSum({r \in d.stats : r.user_id = u.id}, f)

\* "rank": idx + 1
Rank(idx) == idx + 1

\* one entry of the list get_leaderboard returns
LeaderboardEntry(d, u, idx) ==
    [rank |-> Rank(idx),
     user |-> [slack_id |-> u.slack_id, display_name |-> u.display_name, real_name |-> u.real_name],
     stats |-> [f \in SortKeys |-> OrZero(UserTotal(d, u, f))]]

\* the lists get_leaderboard(sort_by, limit) can return on tables d
LeaderboardResults(d, sort_by, limit) ==
    LET users == LeaderboardUsers(d)
        key == [u \in users |-> UserTotal(d, u, SortField(sort_by)).value]
    IN  { [i \in 1..Len(Limit(f, limit)) |-> LeaderboardEntry(d, f[i], i - 1)] :
            f \in DescBy(users, key) }

\* EmojiService.get_leaderboard(sort_by, limit)
GetLeaderboard ==
    /\ reply = NoReply
    /\ \E k \in RequestedSortKeys, n \in 1..MaxLimit :
          \E e \in LeaderboardResults(db, k, n) :
              reply' = [fn |-> "get_leaderboard", sort_by |-> k, limit |-> n, entries |-> e]
    /\ UNCHANGED <<config, db, tx, sess, opsBegun, latest>>

\* api.get_leaderboard (GET /leaderboard): the LeaderboardResponse built from
\* the service's entries and the sort_by of the request
ApiGetLeaderboard ==
    /\ reply = NoReply
    /\ \E k \in RequestedSortKeys, n \in 1..MaxLimit :
          \E e \in LeaderboardResults(db, k, n) :
              reply' = [fn |-> "api_get_leaderboard", entries |-> e, sort_by |-> k,
                        total_users |-> Len(e)]
    /\ UNCHANGED <<config, db, tx, sess, opsBegun, latest>>

\* a lookup that finds only the users that have given
UserBySlackIdOfGivers(d, slack_id) ==
    {u \in d.users : u.slack_id = slack_id /\ \E x \in d.usage : x.user_id = u.id}

\* .filter(User.slack_id == slack_id).first()
UserBySlackId(d, slack_id) == {u \in d.users : u.slack_id = slack_id}

\* .filter(EmojiUsage.user_id == user.id)
UserEvents(d, u) == {x \in d.usage : x.user_id = u.id}

\* the history query of get_user_history, lines 348-355: the pages it can
\* return; events of one created_at come in an order the database picks anew
\* for every query
HistoryPages(d, u, limit, offset) ==
    LET ev == UserEvents(d, u)
    IN  {Limit(Offset(f, offset), limit) : f \in DescBy(ev, [x \in ev |-> x.created_at])}

\* what get_user_history returns for a stored user; shown: the pages a
\* client has been given before, this one appended
HistoryReply(d, u, limit, offset, page, shown) ==
    [fn |-> "get_user_history", slack_id |-> u.slack_id, found |-> TRUE,
     history |-> page,
     pagination |-> [total |-> Cardinality(UserEvents(d, u)), limit |-> limit, offset |-> offset,
                     has_more |-> (offset + limit) < Cardinality(UserEvents(d, u))],
     shown |-> shown \o page]

\* return None
NotFound(fn, id) == [fn |-> fn, slack_id |-> id, found |-> FALSE]

\* EmojiService.get_user_history(slack_id, limit, offset): a client asks for
\* the first page, and for the next page while has_more is true
GetUserHistory ==
    /\ \E id \in AskedUserIds, limit \in 1..MaxLimit, offset \in 0..Cardinality(StoredEvents) :
          /\ \/ reply = NoReply /\ offset = 0
             \/ /\ reply.fn = "get_user_history"
                /\ reply.found
                /\ reply.pagination.has_more
                /\ id = reply.slack_id
                /\ limit = reply.pagination.limit
                /\ offset = reply.pagination.offset + reply.pagination.limit
          /\ IF UserBySlackId(db, id) = {}
                THEN reply' = NotFound("get_user_history", id)
                ELSE \E u \in UserBySlackId(db, id) :
                        \E page \in HistoryPages(db, u, limit, offset) :
                            reply' = HistoryReply(db, u, limit, offset, page,
                                                  IF offset = 0 THEN <<>> ELSE reply.shown)
    /\ UNCHANGED <<config, db, tx, sess, opsBegun, latest>>

\* .limit(10)
TopLimit == 10

\* top_given / top_received of get_user_stats: the user's emoji_stats rows of
\* a positive count, by score downwards, the first ten; dir is "given" or
\* "received"
TopEmojis(d, u, dir) ==
    LET count == IF dir = "given" THEN "given_count" ELSE "received_count"
        score == IF dir = "given" THEN "given_score" ELSE "received_score"
        rows == {r \in d.stats : r.user_id = u.id /\ r[count] > 0}
    IN  { [i \in 1..Len(Limit(f, TopLimit)) |->
              [emoji |-> f[i].emoji_name, count |-> f[i][count], score |-> f[i][score]]] :
            f \in DescBy(rows, [r \in rows |-> r[score]]) }

\* EmojiService.get_user_stats(slack_id)
GetUserStats ==
    /\ reply = NoReply
    /\ \E id \in AskedUserIds :
          IF UserBySlackId(db, id) = {}
            THEN reply' = NotFound("get_user_stats", id)
            ELSE \E u \in UserBySlackId(db, id) :
                    \E g \in TopEmojis(db, u, "given"), r \in TopEmojis(db, u, "received") :
                        reply' = [fn |-> "get_user_stats", slack_id |-> id, found |-> TRUE,
                                  user |-> [slack_id |-> u.slack_id, display_name |-> u.display_name,
                                            real_name |-> u.real_name, email |-> u.email],
                                  totals |-> [f \in SortKeys |-> OrZero(UserTotal(db, u, f))],
                                  top_given |-> g, top_received |-> r]
    /\ UNCHANGED <<config, db, tx, sess, opsBegun, latest>>

\* .filter(EmojiUsage.channel_id == channel.id)
ChannelEvents(d, c) == {x \in d.usage : x.channel_id = c.id}

\* top_emojis / top_users of get_channel_stats: the channel's events grouped
\* by column by ("emoji_name" or "user_id"), each group with its count and
\* summed score, by summed score downwards, the first ten
TopGroups(d, c, by) ==
    LET groups == {x[by] : x \in ChannelEvents(d, c)}
        of(g) == {x \in ChannelEvents(d, c) : x[by] = g}
    IN  { [i \in 1..Len(Limit(f, TopLimit)) |->
              [key |-> f[i], count |-> Cardinality(of(f[i])),
               score |-> SumField(of(f[i]), "emoji_score")]] :
            f \in DescBy(groups, [g \in groups |-> SumField(of(g), "emoji_score")]) }

\* EmojiService.get_channel_stats(channel_slack_id)
GetChannelStats ==
    /\ reply = NoReply
    /\ \E id \in AskedChannelIds :
          LET found == {c \in db.channels : c.slack_id = id}
          IN  IF found = {}
                THEN reply' = NotFound("get_channel_stats", id)
                ELSE \E c \in found :
                        \E e \in TopGroups(db, c, "emoji_name"), u \in TopGroups(db, c, "user_id") :
                            reply' = [fn |-> "get_channel_stats", slack_id |-> id, found |-> TRUE,
                                      channel |-> [slack_id |-> c.slack_id, name |-> c.name,
                                                   is_private |-> c.is_private],
                                      totals |-> [total_count |-> Cardinality(ChannelEvents(db, c)),
                                                  total_score |->
                                                      OrZero(SqlSum(ChannelEvents(db, c), "emoji_score"))],
                                      top_emojis |-> e, top_users |-> u]
    /\ UNCHANGED <<config, db, tx, sess, opsBegun, latest>>

NextRead ==
    \/ GetLeaderboard
    \/ GetUserHistory
    \/ GetUserStats
    \/ GetChannelStats
    \/ ApiGetLeaderboard

SpecRead == InitRead /\ [][NextRead]_vars

(***************************************************************************)
(* The legacy recorder: EmojiTrackerService (src/services/emoji_tracker.py) *)
(* on the tables of src/models/database.py, with the policy of             *)
(* src/utils/config.py.  Every commit of a call may fail in the datastore.  *)
(***************************************************************************)
\* utils.config.Config.is_tracked_emoji
IsTrackedEmoji(cfg, name) ==
    cfg.track_all_emojis \/ \E e \in cfg.emojis : e.name = name

\* utils.config.Config.get_emoji_score
LegacyGetEmojiScore(cfg, name) ==
    LET found == {e \in cfg.emojis : e.name = name /\ e.keys # {}}
    IN  IF found = {} THEN cfg.default_score
        ELSE LET e == CHOOSE x \in found : TRUE
             IN  IF "score" \in e.keys THEN e.score ELSE cfg.default_score

\* EmojiTrackerService._update_single_user_stats on tables d, with the counters
\* to add; fails: session.commit() raises.  A new EmojiStats object has None
\* in its counters until it is inserted, and "None += int" raises TypeError
UpdateSingleUserStats(d, slack_id, given_score, received_score, given_count, received_count, fails) ==
    LET found == {r \in d.stats : r.user_slack_id = slack_id}
        stats == CHOOSE r \in found : TRUE
        new == [stats EXCEPT !.total_given_score = @ + given_score,
                             !.total_received_score = @ + received_score,
                             !.total_given_count = @ + given_count,
                             !.total_received_count = @ + received_count]
    IN  IF found = {} \/ fails THEN [db |-> d, raised |-> TRUE]
        ELSE [db |-> [d EXCEPT !.stats = (@ \ {stats}) \cup {new}], raised |-> FALSE]

\* EmojiTrackerService.track_emoji_reaction / track_emoji_message on tables
\* d: the tables afterwards and the value returned; fails: the number of the
\* commit of this call that raises (0: none)
TrackEmoji(d, cfg, giver, receiver, emoji_name, event_type, fails) ==
    LET name == NormalizeName(cfg, emoji_name)
        score == LegacyGetEmojiScore(cfg, name)
        usage == [id |-> Cardinality(d.usage) + 1, giver_slack_id |-> giver,
                  receiver_slack_id |-> receiver, emoji_name |-> name, emoji_score |-> score,
                  event_type |-> event_type]
        used == [d EXCEPT !.usage = @ \cup {usage}]
        given == UpdateSingleUserStats(used, giver, score, 0, 1, 0, fails = 2)
        received == IF receiver # None /\ receiver # giver
                    THEN UpdateSingleUserStats(given.db, receiver, 0, score, 0, 1, fails = 3)
                    ELSE given
    IN  IF ~IsTrackedEmoji(cfg, name) THEN [db |-> d, returned |-> FALSE]
        ELSE IF fails = 1 THEN [db |-> d, returned |-> FALSE]
        ELSE IF given.raised THEN [db |-> used, returned |-> FALSE]
        ELSE [db |-> received.db, returned |-> ~received.raised]

InitLegacy ==
    /\ config \in Configs
    /\ db = EmptyDb
    /\ tx = [s \in Sessions |-> EmptyTx]
    /\ sess = [s \in Sessions |-> IdleSession]
    /\ opsBegun = 0
    /\ latest = NoLatest
    /\ reply = NoReply

\* what a call of fn leaves in reply: its arguments, the value returned
\* and the tables before it
LegacyReply(fn, giver, receiver, emoji_name, returned) ==
    [fn |-> fn, giver |-> giver, receiver |-> receiver,
     emoji_name |-> NormalizeName(config, emoji_name), returned |-> returned, before |-> db]

\* EmojiTrackerService.track_emoji_reaction
TrackEmojiReaction ==
    /\ opsBegun < MaxOps
    /\ \E giver \in UserIds, receiver \in UserIds \cup {None}, e \in ReactionNames, fails \in 0..3 :
          LET out == TrackEmoji(db, config, giver, receiver, e, "reaction", fails)
          IN  /\ db' = out.db
              /\ reply' = LegacyReply("track_emoji_reaction", giver, receiver, e, out.returned)
    /\ opsBegun' = opsBegun + 1
    /\ UNCHANGED <<config, tx, sess, latest>>

\* EmojiTrackerService.track_emoji_message
TrackEmojiMessage ==
    /\ opsBegun < MaxOps
    /\ \E sender \in UserIds, e \in ReactionNames, fails \in 0..3 :
          LET out == TrackEmoji(db, config, sender, None, e, "message", fails)
          IN  /\ db' = out.db
              /\ reply' = LegacyReply("track_emoji_message", sender, None, e, out.returned)
    /\ opsBegun' = opsBegun + 1
    /\ UNCHANGED <<config, tx, sess, latest>>

NextLegacy ==
    \/ TrackEmojiReaction
    \/ TrackEmojiMessage

SpecLegacy == InitLegacy /\ [][NextLegacy]_vars

(***************************************************************************)
(* Socket Mode requests: SlackService._handle_socket_mode_request          *)
(* (listener "service") and SlackEventListener._handle_socket_mode_request *)
(* (listener "legacy").  reply holds the request being handled: acks, the  *)
(* calls of send_socket_mode_response; delivered, whether that call        *)
(* returned; handed, how often the payload was handed to processing;       *)
(* propagated, whether an exception left the request handler.              *)
(***************************************************************************)
\* a request arrives at a listener.  loop: there is a running event loop in
\* the thread that calls the listener; event: what processing the payload does
SocketRequests ==
    [fn : {"socket_mode_request"}, listener : {"service", "legacy"},
     type : {"events_api", "slash_commands", "interactive"},
     loop : BOOLEAN, event : {"ok", "raises", "malformed"},
     pc : {"ack"}, acks : {0}, delivered : {FALSE}, handed : {0}, logged : {0},
     propagated : {FALSE}]

\* an exception that is not caught leaves the request handler
Uncaught(r) == [r EXCEPT !.pc = "done", !.propagated = TRUE]

\* "except Exception as e: logger.error(...)"
Caught(r) == [r EXCEPT !.pc = "done", !.logged = @ + 1]

\* the listener is called with a request
SocketRequest ==
    /\ reply.fn = "none" \/ (reply.fn = "socket_mode_request" /\ reply.pc = "done")
    /\ opsBegun < MaxOps
    /\ reply' \in SocketRequests
    /\ opsBegun' = opsBegun + 1
    /\ UNCHANGED <<config, db, tx, sess, latest>>

\* client.send_socket_mode_response(response), which may raise
SendAck ==
    /\ reply.fn = "socket_mode_request" /\ reply.pc = "ack"
    /\ \E sent \in BOOLEAN :
          reply' = IF sent THEN [reply EXCEPT !.pc = "dispatch", !.acks = @ + 1, !.delivered = TRUE]
                   ELSE Caught([reply EXCEPT !.acks = @ + 1])
    /\ UNCHANGED <<config, db, tx, sess, opsBegun, latest>>

\* the branch on req.type: asyncio.create_task(self._handle_event(...)), a
\* RuntimeError without a running loop, in the service; a direct call of
\* _handle_events_api or _handle_slash_command in the legacy listener
Dispatch ==
    /\ reply.fn = "socket_mode_request" /\ reply.pc = "dispatch"
    /\ reply' = IF reply.listener = "service"
                THEN IF reply.type # "events_api" THEN [reply EXCEPT !.pc = "done"]
                     ELSE IF reply.loop THEN [reply EXCEPT !.pc = "process", !.handed = @ + 1]
                     ELSE Caught(reply)
                ELSE IF reply.type \in {"events_api", "slash_commands"}
                     THEN [reply EXCEPT !.pc = "process", !.handed = @ + 1]
                     ELSE [reply EXCEPT !.pc = "done"]
    /\ UNCHANGED <<config, db, tx, sess, opsBegun, latest>>

\* the processing of the payload: _handle_event as a task of the loop (an
\* exception of the task does not reach the request handler, which has
\* returned), or the legacy handlers inside the try of the request handler
Process ==
    /\ reply.fn = "socket_mode_request" /\ reply.pc = "process"
    /\ reply' = IF reply.event = "ok" \/ (reply.listener = "service" /\ reply.event = "malformed")
                THEN [reply EXCEPT !.pc = "done"]
                ELSE Caught(reply)
    /\ UNCHANGED <<config, db, tx, sess, opsBegun, latest>>

NextSocket ==
    \/ SocketRequest
    \/ SendAck
    \/ Dispatch
    \/ Process

SpecSocket == InitLegacy /\ [][NextSocket]_vars

(***************************************************************************)
(* get_db_session, statement by statement.  reply holds the session a      *)
(* caller has opened: open, whether it is not yet closed; commits,         *)
(* rollbacks, closes, the calls of session.commit(), session.rollback(),   *)
(* session.close(); error, the statement whose exception is on its way to  *)
(* the caller.                                                             *)
(***************************************************************************)
\* the with-blocks of the handlers and the FastAPI dependency get_db
SessionCallers ==
    {"_handle_reaction_added", "_handle_message", "_handle_user_change",
     "_handle_channel_change", "get_db"}

\* without the finally clause the raise would end the function
Reraised(r) == [r EXCEPT !.pc = "raised"]

\* "raise", with "finally: session.close()" still to run
Finally(r) == [r EXCEPT !.pc = "close"]

\* session = SessionLocal(); yield session
OpenSession ==
    /\ reply.fn = "none" \/ (reply.fn = "get_db_session" /\ reply.pc \in {"returned", "raised"})
    /\ opsBegun < MaxOps
    /\ \E caller \in SessionCallers :
          reply' = [fn |-> "get_db_session", caller |-> caller, pc |-> "body", open |-> TRUE,
                    commits |-> 0, rollbacks |-> 0, closes |-> 0, error |-> None]
    /\ opsBegun' = opsBegun + 1
    /\ UNCHANGED <<config, db, tx, sess, latest>>

\* the body of the with-block returns or raises
Body ==
    /\ reply.fn = "get_db_session" /\ reply.pc = "body"
    /\ \E ok \in BOOLEAN :
          reply' = IF ok THEN [reply EXCEPT !.pc = "commit"]
                   ELSE [reply EXCEPT !.pc = "rollback", !.error = "body"]
    /\ UNCHANGED <<config, db, tx, sess, opsBegun, latest>>

\* session.commit(), which may raise
SessionCommit ==
    /\ reply.fn = "get_db_session" /\ reply.pc = "commit"
    /\ \E ok \in BOOLEAN :
          reply' = IF ok THEN [reply EXCEPT !.pc = "close", !.commits = @ + 1]
                   ELSE [reply EXCEPT !.pc = "rollback", !.commits = @ + 1, !.error = "commit"]
    /\ UNCHANGED <<config, db, tx, sess, opsBegun, latest>>

\* except Exception: session.rollback(), which may raise; logger.error; raise
SessionRollback ==
    /\ reply.fn = "get_db_session" /\ reply.pc = "rollback"
    /\ \E ok \in BOOLEAN :
          reply' = Finally([reply EXCEPT !.rollbacks = @ + 1,
                                         !.error = IF ok THEN @ ELSE "rollback"])
    /\ UNCHANGED <<config, db, tx, sess, opsBegun, latest>>

\* finally: session.close()
SessionClose ==
    /\ reply.fn = "get_db_session" /\ reply.pc = "close"
    /\ reply' = [reply EXCEPT !.open = FALSE, !.closes = @ + 1,
                              !.pc = IF reply.error = None THEN "returned" ELSE "raised"]
    /\ UNCHANGED <<config, db, tx, sess, opsBegun, latest>>

NextDbSession ==
    \/ OpenSession
    \/ Body
    \/ SessionCommit
    \/ SessionRollback
    \/ SessionClose

\* the body of a with-block ends, and the statements after it are executed
SpecDbSession ==
    InitLegacy /\ [][NextDbSession]_vars
               /\ WF_vars(Body \/ SessionCommit \/ SessionRollback \/ SessionClose)

(***************************************************************************)
(* Properties.                                                             *)
(***************************************************************************)
TrackKinds == {"reaction", "message"}

\* session s has run a handler to its end, and no handler has started since
Ended(s) == sess[s].pc = "idle" /\ sess[s].op.kind # "none"

\* the aggregate rows of tables d for user slack_id and the emoji that name e
\* normalizes to
StatsFor(d, slack_id, e) ==
    {r \in d.stats :
        /\ NormalizeName(config, r.emoji_name) = NormalizeName(config, e)
        /\ \E u \in d.users : u.slack_id = slack_id /\ u.id = r.user_id}

Counter(d, slack_id, e, f) == SumField(StatsFor(d, slack_id, e), f)

\* the non-skipped calls of session record c for the emoji that e normalizes to
CallsFor(c, e) ==
    SelectSeq(c.calls, LAMBDA x : NormalizeName(config, x.name) = NormalizeName(config, e))

RECURSIVE SumScores(_)
SumScores(calls) == IF calls = <<>> THEN 0 ELSE Head(calls).score + SumScores(Tail(calls))

\* session s took a step of its handler
Stepped(s) == <<sess[s].pc, sess[s].idx>> # <<sess'[s].pc, sess'[s].idx>>

\* C1: after a handler made N non-skipped track_emoji_usage calls for actor U
\* and emoji E with scores s1..sN, the given_count of (U,E) has grown by N and
\* its given_score by s1+...+sN
C1_AdditiveAggregation ==
    \A s \in Sessions :
        (Ended(s) /\ sess[s].op.kind \in TrackKinds) =>
            \A e \in AllNames :
                /\ Counter(db, sess[s].op.id, e, "given_count")
                     = Counter(sess[s].before, sess[s].op.id, e, "given_count")
                       + Len(CallsFor(sess[s], e))
                /\ Counter(db, sess[s].op.id, e, "given_score")
                     = Counter(sess[s].before, sess[s].op.id, e, "given_score")
                       + SumScores(CallsFor(sess[s], e))

Failures == {"TypeError", "IntegrityError", "DeadlockDetected"}

\* C2: a handler that fails leaves the committed tables as they were: the
\* failing step changes nothing, and the committed tables change only in the
\* step in which a handler that ran to its end commits
C2_AllOrNothing ==
    [][/\ \A s \in Sessions :
            (sess[s].pc # "idle" /\ sess'[s].pc = "idle" /\ sess'[s].outcome \in Failures)
                => db' = db
       /\ db' # db =>
            \E s \in Sessions :
                sess[s].pc = "commit" /\ sess'[s].pc = "idle" /\ sess'[s].outcome = "committed"]_vars

\* a recording failed after its transaction had written (an identity upsert)
C2_Witness ==
    \E s \in Sessions :
        /\ Ended(s)
        /\ sess[s].op.kind \in TrackKinds
        /\ sess[s].outcome \in Failures
        /\ sess[s].wrote

C4_ScoreZeroSkipped ==
    [][\A s \in Sessions :
          ( /\ sess[s].pc = "track"
            /\ GetEmojiScore(config, sess[s].op.emojis[sess[s].idx]) = 0
            /\ Stepped(s) )
              => /\ sess'[s].result = "skipped"
                 /\ sess'[s].calls = sess[s].calls
                 /\ db' = db
                 /\ tx'[s] = tx[s]]_vars

\* a call was skipped
C4_Witness ==
    \E s \in Sessions :
        /\ sess[s].result = "skipped"
        /\ sess[s].op.kind \in TrackKinds
        /\ \E i \in 1..Len(sess[s].op.emojis) : GetEmojiScore(config, sess[s].op.emojis[i]) = 0

\* C5: a recorded reaction whose target is its actor raises the actor's given
\* counters for the emoji by one and by the score, and changes no received
\* counter
C5_SelfReactionGivenOnly ==
    \A s \in Sessions :
        ( /\ Ended(s) /\ sess[s].op.kind = "reaction"
          /\ sess[s].op.target = sess[s].op.id /\ sess[s].calls # <<>> )
        => LET c == sess[s]
               e == c.op.emojis[1]
           IN  /\ Counter(db, c.op.id, e, "given_count")
                    = Counter(c.before, c.op.id, e, "given_count") + 1
               /\ Counter(db, c.op.id, e, "given_score")
                    = Counter(c.before, c.op.id, e, "given_score") + c.calls[1].score
               /\ \A u \in UserIds, n \in AllNames :
                    /\ Counter(db, u, n, "received_count") = Counter(c.before, u, n, "received_count")
                    /\ Counter(db, u, n, "received_score") = Counter(c.before, u, n, "received_score")

\* C6: when two handlers that overlapped both resolved the same external id,
\* which had no row before, both have committed and the id has exactly one row
C6_ConcurrentUpsert ==
    \A s, t \in Sessions :
        LET a == sess[s]
            b == sess[t]
        IN  ( /\ s # t /\ Ended(s) /\ Ended(t) /\ a.overlap /\ b.overlap
              /\ a.op.kind = b.op.kind /\ a.op.kind \in {"user_change", "channel_change"}
              /\ a.op.id = b.op.id
              /\ ~\E r \in a.before.users \cup a.before.channels
                           \cup b.before.users \cup b.before.channels : r.slack_id = a.op.id )
            => /\ a.outcome = "committed"
               /\ b.outcome = "committed"
               /\ Cardinality({r \in db.users \cup db.channels : r.slack_id = a.op.id}) = 1

\* C7: when the handlers ran one after another, every external id an upsert
\* resolved has exactly one row, and each of its profile fields holds the most
\* recent non-null value supplied for it
C7_LatestNonNull ==
    (\A s \in Sessions : sess[s].pc = "idle") =>
        /\ \A u \in UserIds :
             LET rows == {r \in db.users : r.slack_id = u}
             IN  IF latest.users[u].seen
                 THEN /\ Cardinality(rows) = 1
                      /\ \A r \in rows :
                           /\ r.email = latest.users[u].email
                           /\ r.display_name = latest.users[u].display_name
                           /\ r.real_name = latest.users[u].real_name
                 ELSE rows = {}
        /\ \A c \in ChannelIds :
             LET rows == {r \in db.channels : r.slack_id = c}
             IN  IF latest.channels[c].seen
                 THEN /\ Cardinality(rows) = 1
                      /\ \A r \in rows : r.name = latest.channels[c].name
                 ELSE rows = {}

\* an id was upserted twice: a null value did not erase the stored one, and a
\* later non-null value replaced the earlier one
C7_Witness ==
    /\ \A s \in Sessions : sess[s].pc = "idle"
    /\ \E s \in Sessions :
         /\ sess[s].op.kind = "user_change"
         /\ sess[s].outcome = "committed"
         /\ \E r \in sess[s].before.users, q \in db.users :
              /\ r.slack_id = sess[s].op.id /\ q.slack_id = sess[s].op.id
              /\ \/ r.email # None /\ sess[s].op.uprof.email = None /\ q.email = r.email
                 \/ r.email # None /\ sess[s].op.uprof.email \notin {None, r.email}
                      /\ q.email = sess[s].op.uprof.email

\* C8: an upsert of an existing identity changes only the fields supplied in
\* the call: the upserts track_emoji_usage makes supply none, a user_change
\* supplies the bot flag and the non-null profile fields, a channel change the
\* two flags and a non-null name
C8_OnlySuppliedFieldsChange ==
    \A s \in Sessions :
        LET c == sess[s]
            direct == c.op.kind \in {"user_change", "channel_change"}
        IN  /\ (c.upserted = "user" /\ c.loadedUser.id # NullId) =>
                 \A r \in ViewUsers(s) :
                    r.id = c.loadedUser.id =>
                      /\ (~direct \/ c.op.uprof.email = None) => r.email = c.loadedUser.email
                      /\ (~direct \/ c.op.uprof.display_name = None)
                            => r.display_name = c.loadedUser.display_name
                      /\ (~direct \/ c.op.uprof.real_name = None)
                            => r.real_name = c.loadedUser.real_name
                      /\ ~direct => r.is_bot = c.loadedUser.is_bot
            /\ (c.upserted = "channel" /\ c.loadedChan.id # NullId) =>
                 \A r \in ViewChannels(s) :
                    r.id = c.loadedChan.id =>
                      /\ (~direct \/ c.op.cprof.name = None) => r.name = c.loadedChan.name
                      /\ ~direct => /\ r.is_private = c.loadedChan.is_private
                                    /\ r.is_archived = c.loadedChan.is_archived

\* C9: when a handler is over, the usage table holds every row it held before,
\* unchanged, and one more row for each non-skipped call, with the call's
\* policy score
C9_OneEventPerCall ==
    \A s \in Sessions :
        (Ended(s) /\ sess[s].op.kind \in TrackKinds) =>
            LET c == sess[s]
                new == db.usage \ c.before.usage
            IN  /\ c.before.usage \subseteq db.usage
                /\ Cardinality(new) = Len(c.calls)
                /\ \A i \in 1..Len(c.calls) :
                      Cardinality({r \in new : r.emoji_score = c.calls[i].score
                                               /\ NormalizeName(config, r.emoji_name)
                                                    = NormalizeName(config, c.calls[i].name)})
                        = Len(SelectSeq(c.calls, LAMBDA x :
                                 /\ x.score = c.calls[i].score
                                 /\ NormalizeName(config, x.name)
                                      = NormalizeName(config, c.calls[i].name)))

\* C10: each recording is stored under the normalized form of the name it was
\* given: its usage row carries that name, and the one aggregate row of the
\* actor for that name counts every recording whose name normalizes to it
C10_StoredNormalized ==
    \A s \in Sessions :
        (Ended(s) /\ sess[s].op.kind \in TrackKinds) =>
            \A i \in 1..Len(sess[s].calls) :
                LET c == sess[s]
                    n == NormalizeName(config, c.calls[i].name)
                    rows == {r \in StatsFor(db, c.op.id, n) : r.emoji_name = n}
                IN  /\ \E r \in db.usage \ c.before.usage : r.emoji_name = n
                    /\ Cardinality(rows) = 1
                    /\ \A r \in rows :
                          r.given_count >= Counter(c.before, c.op.id, n, "given_count")
                                           + Len(CallsFor(c, n))

PolicyScore(cfg, name) ==
    LET e == {x \in cfg.emojis : x.name = NormalizeName(cfg, name)}
        x == CHOOSE x \in e : TRUE
    IN  IF e # {} THEN (IF "score" \in x.keys THEN x.score ELSE 1)
        ELSE IF cfg.track_all_emojis
        THEN (IF "default_score" \in cfg.settings THEN cfg.default_score ELSE 1)
        ELSE 0

\* C12: get_emoji_score(name) returns the policy score of the name: the
\* configured score of its entry (1 when the entry specifies none), else the
\* default score (1 when unset) when track_all_emojis is on, else 0
C12_PolicyScore ==
    reply.fn = "get_emoji_score" =>
        /\ ~reply.raised
        /\ reply.value = PolicyScore(config, reply.name)

\* what a call of get_emoji_score comes to: whether it raises, and the score
ScoreOutcome(cfg, name) ==
    [raised |-> GetEmojiScoreRaises(cfg, name),
     value |-> IF GetEmojiScoreRaises(cfg, name) THEN 0 ELSE GetEmojiScore(cfg, name)]

\* the spellings of a name in other letter case
CaseVariants(name) ==
    {m \in [1..Len(name) -> PolicyAlphabet] : \A i \in 1..Len(name) : Lower(m[i]) = Lower(name[i])}

\* the spellings of a name in other letter case, with or without a colon in
\* front and behind
Spellings(name) ==
    UNION { {m, <<":">> \o m, m \o <<":">>, <<":">> \o m \o <<":">>} : m \in CaseVariants(name) }

\* C13: in case-insensitive mode get_emoji_score comes to the same result for
\* a name in any letter case and with or without leading and trailing colons
C13_CaseColonInsensitive ==
    (reply.fn = "get_emoji_score" /\ ~config.case_sensitive) =>
        \A m \in Spellings(reply.name) :
            ScoreOutcome(config, m) = [raised |-> reply.raised, value |-> reply.value]

\* an upper-case name in colons got the (non-zero) score configured for its
\* lower-case spelling
C13_Witness ==
    /\ reply.fn = "get_emoji_score"
    /\ ~config.case_sensitive
    /\ reply.name = <<":", "A", ":">>
    /\ ~reply.raised
    /\ reply.value > 0
    /\ \E x \in config.emojis : x.name = <<"a">> /\ "score" \in x.keys /\ x.score = reply.value

\* C14: for each of the four sort keys the entries get_leaderboard returns
\* never grow in the summed value of the key from one rank to the next, and
\* their ranks are 1, 2, ..., the length of the list
C14_LeaderboardOrdered ==
    (reply.fn = "get_leaderboard" /\ reply.sort_by \in SortKeys) =>
        \A i \in 1..Len(reply.entries) :
            /\ reply.entries[i].rank = i
            /\ i < Len(reply.entries) =>
                 reply.entries[i].stats[reply.sort_by] >= reply.entries[i + 1].stats[reply.sort_by]

\* a leaderboard of three users whose given counts are not all equal
C14_Witness ==
    /\ reply.fn = "get_leaderboard"
    /\ reply.sort_by = "given_count"
    /\ Len(reply.entries) = 3
    /\ reply.entries[1].stats["given_count"] > reply.entries[3].stats["given_count"]

\* the users of the stored tables that have at least one emoji_stats row
WithAggregates == {u \in db.users : \E r \in db.stats : r.user_id = u.id}

\* the sum of counter f over the emoji_stats rows of user u
TotalOf(u, f) == SumField({r \in db.stats : r.user_id = u.id}, f)

\* the stored user an entry of a leaderboard is about
EntryUsers(e) == {u \in db.users : u.slack_id = e.user.slack_id}

\* C15: every entry get_leaderboard returns reports, for each of the four
\* counters, the sum of the counter over all emoji_stats rows of its user; no
\* user appears twice; the list has min(limit, number of users with at least
\* one emoji_stats row) entries; and no user left out has a strictly larger
\* value of the sort key than a user in the list
C15_LeaderboardContent ==
    reply.fn = "get_leaderboard" =>
        LET n == Len(reply.entries)
            key == IF reply.sort_by \in SortKeys THEN reply.sort_by ELSE "received_score"
            included == UNION {EntryUsers(reply.entries[i]) : i \in 1..n}
        IN  /\ \A i \in 1..n :
                  /\ EntryUsers(reply.entries[i]) \subseteq WithAggregates
                  /\ \E u \in EntryUsers(reply.entries[i]) :
                        \A f \in SortKeys : reply.entries[i].stats[f] = TotalOf(u, f)
            /\ \A i, j \in 1..n :
                  i # j => reply.entries[i].user.slack_id # reply.entries[j].user.slack_id
            /\ n = Min(reply.limit, Cardinality(WithAggregates))
            /\ \A u \in WithAggregates \ included :
                  \A i \in 1..n : TotalOf(u, key) <= reply.entries[i].stats[key]

\* a leaderboard cut to two entries with a third user, of a smaller total,
\* left out, its first user with totals over two emojis
C15_Witness ==
    /\ reply.fn = "get_leaderboard"
    /\ reply.sort_by = "given_score"
    /\ reply.limit = 2
    /\ Len(reply.entries) = 2
    /\ Cardinality(WithAggregates) = 3
    /\ reply.entries[1].stats["given_score"] = 4
    /\ \E u \in WithAggregates :
          /\ u.slack_id # reply.entries[1].user.slack_id
          /\ u.slack_id # reply.entries[2].user.slack_id
          /\ TotalOf(u, "given_score") < reply.entries[2].stats["given_score"]

\* C16: for a sort key outside the four valid ones get_leaderboard does not
\* fail and returns a result of the call with received_score and the same
\* limit: the users with aggregates in an order never growing in their summed
\* received_score, cut to the limit, ranked from 1, each with its four totals
C16_UnknownKeyIsReceivedScore ==
    (reply.fn = "get_leaderboard" /\ reply.sort_by \notin SortKeys) =>
        /\ reply.entries \in LeaderboardResults(db, "received_score", reply.limit)
        /\ \A i \in 1..(Len(reply.entries) - 1) :
              reply.entries[i].stats["received_score"] >= reply.entries[i + 1].stats["received_score"]

\* a call with the key "score" whose result is not in the order of any of the
\* other three keys
C16_Witness ==
    /\ reply.fn = "get_leaderboard"
    /\ reply.sort_by = "score"
    /\ Len(reply.entries) = 3
    /\ reply.entries[1].stats["received_score"] > reply.entries[3].stats["received_score"]
    /\ \A k \in SortKeys \ {"received_score"} :
          reply.entries \notin LeaderboardResults(db, k, reply.limit)

\* C17: the pages get_user_history gives for offsets 0, L, 2L, ... put one
\* after the other are the user's events, each once, in an order never
\* growing in created_at, also when events share a created_at; and has_more of
\* each page is true exactly when offset + L is below the number of events
C17_PagesAreTheHistory ==
    (reply.fn = "get_user_history" /\ reply.found) =>
        LET ev == UNION {UserEvents(db, u) : u \in UserBySlackId(db, reply.slack_id)}
        IN  /\ reply.pagination.has_more <=>
                  reply.pagination.offset + reply.pagination.limit < Cardinality(ev)
            /\ ~reply.pagination.has_more =>
                  /\ Len(reply.shown) = Cardinality(ev)
                  /\ \A x \in ev : \E i \in 1..Len(reply.shown) : reply.shown[i] = x
                  /\ \A i \in 1..(Len(reply.shown) - 1) :
                        reply.shown[i].created_at >= reply.shown[i + 1].created_at

\* C18: get_user_stats, get_user_history and get_channel_stats answer "not
\* found" exactly when no row has the external id asked for; for a stored
\* user or channel with no events they answer with zero totals and empty lists
C18_NotFoundIffUnknown ==
    /\ reply.fn \in {"get_user_stats", "get_user_history"} =>
          LET known == {u \in db.users : u.slack_id = reply.slack_id}
              events == {x \in db.usage : \E u \in known : x.user_id = u.id \/ x.target_user_id = u.id}
          IN  /\ reply.found <=> known # {}
              /\ (reply.found /\ events = {} /\ reply.fn = "get_user_stats") =>
                    /\ \A f \in SortKeys : reply.totals[f] = 0
                    /\ reply.top_given = <<>>
                    /\ reply.top_received = <<>>
              /\ (reply.found /\ events = {} /\ reply.fn = "get_user_history") =>
                    /\ reply.history = <<>>
                    /\ reply.pagination.total = 0
                    /\ ~reply.pagination.has_more
    /\ reply.fn = "get_channel_stats" =>
          LET known == {c \in db.channels : c.slack_id = reply.slack_id}
              events == {x \in db.usage : \E c \in known : x.channel_id = c.id}
          IN  /\ reply.found <=> known # {}
              /\ (reply.found /\ events = {}) =>
                    /\ reply.totals = [total_count |-> 0, total_score |-> 0]
                    /\ reply.top_emojis = <<>>
                    /\ reply.top_users = <<>>

\* a summary with zero totals for the stored user U3, who has neither given
\* nor received, on tables that hold events of other users
C18_Witness ==
    /\ reply.fn = "get_user_stats"
    /\ reply.slack_id = "U3"
    /\ reply.found
    /\ reply.totals["given_count"] = 0
    /\ reply.top_given = <<>>
    /\ db.usage # {}
    /\ \A x \in db.usage : x.user_id # 3 /\ x.target_user_id # 3

\* C19: an upsert whose directory lookup raises or answers not ok still runs
\* to its end without an error: the user is stored with the fields the call
\* supplied, and a user stored before keeps the value of every field the call
\* did not supply
C19_LookupFailureKeepsStored ==
    \A s \in Sessions :
        LET c == sess[s]
            old == {r \in c.before.users : r.slack_id = c.op.id}
        IN  (Ended(s) /\ c.op.kind = "upsert_call" /\ c.op.lookup \in {"raises", "not_ok"}) =>
                /\ c.outcome = "committed"
                /\ \E r \in db.users :
                      /\ r.slack_id = c.op.id
                      /\ c.op.uprof.email # None => r.email = c.op.uprof.email
                      /\ \A q \in old :
                            /\ c.op.uprof.email = None => r.email = q.email
                            /\ r.display_name = q.display_name
                            /\ r.real_name = q.real_name
                            /\ r.is_bot = q.is_bot

\* the positions of text t at which a token starts: a colon, one or more name
\* characters, a colon
TokenStarts(t) ==
    {i \in 1..Len(t) :
        /\ t[i] = ":"
        /\ \E j \in (i + 2)..Len(t) : t[j] = ":" /\ \A k \in (i + 1)..(j - 1) : t[k] \in NameChars}

\* the position of the colon that closes the token starting at i
TokenEnd(t, i) == CHOOSE j \in (i + 2)..Len(t) : t[j] = ":" /\ \A k \in (i + 1)..(j - 1) : t[k] \in NameChars

\* value is the inner names of the tokens of t that start at the positions S,
\* in the order of the positions
NamesOfTokens(t, S, value) ==
    /\ Len(value) = Cardinality(S)
    /\ \A p \in S :
          value[Cardinality({q \in S : q <= p})] = SubSeq(t, p + 1, TokenEnd(t, p) - 1)

\* C20 as stated: extract_emojis_from_text returns the inner names of all
\* tokens of the text, in order of appearance, one entry per occurrence
C20_AllTokens ==
    reply.fn = "extract_emojis_from_text" =>
        NamesOfTokens(reply.text, TokenStarts(reply.text), reply.value)

\* C20: extract_emojis_from_text returns, in order of appearance and one entry
\* per occurrence, the inner names of the tokens whose opening colon is not
\* the closing colon of a token that is itself returned
C20_TokensNotSharingColon ==
    reply.fn = "extract_emojis_from_text" =>
        \E S \in SUBSET TokenStarts(reply.text) :
            /\ \A q \in TokenStarts(reply.text) :
                  q \in S <=> ~\E p \in S : TokenEnd(reply.text, p) = q
            /\ NamesOfTokens(reply.text, S, reply.value)

\* a text of two tokens that share a colon: only the first is returned
C20_Witness ==
    /\ reply.fn = "extract_emojis_from_text"
    /\ reply.text = <<":", "a", ":", "b", ":">>
    /\ reply.value = << <<"a">> >>

\* C21: extract_user_mentions returns every mentioned id once, in the order
\* in which the ids are first seen going through the ids of the payload, then
\* the <@ID> and <@ID|label> mentions of the text, then the @names of the
\* rest of the text that the directory resolves; other names add nothing
C21_MentionsOnceInOrder ==
    (reply.fn = "extract_user_mentions" /\ ~reply.raised) =>
        LET slack == FindSlackMentions(reply.text, 1)
            names == FindDisplayMentions(slack.rest, 1)
            seen == (IF reply.payload.shape = "none" THEN <<>>
                     ELSE ExtractMentionsFromPayload(reply.payload))
                    \o slack.ids
                    \o (IF reply.dir.status = "none" THEN <<>>
                        ELSE ResolveDisplayNamesToUserIds(reply.dir, names))
            first(x) == CHOOSE k \in 1..Len(seen) : seen[k] = x /\ \A j \in 1..(k - 1) : seen[j] # x
            r == reply.value
        IN  /\ \A i, j \in 1..Len(r) : i # j => r[i] # r[j]
            /\ {r[i] : i \in 1..Len(r)} = {seen[k] : k \in 1..Len(seen)}
            /\ \A i, j \in 1..Len(r) : i < j => first(r[i]) < first(r[j])
            /\ reply.dir.status # "ok" => Len(r) <= Len(ExtractMentionsFromPayload(reply.payload)) + Len(slack.ids)

\* B1 and A1 come from the payload, A1 again from the text, and "@a"
\* resolves to A1 once more: the result is B1, A1
C21_Witness ==
    /\ reply.fn = "extract_user_mentions"
    /\ reply.text = <<"<", "@", "A", "1", ">", "@", "a">>
    /\ reply.dir.status = "ok"
    /\ Len(ExtractMentionsFromPayload(reply.payload)) = 2
    /\ reply.value = << [t |-> "str", v |-> <<"B", "1">>], [t |-> "str", v |-> <<"A", "1">>] >>

\* C25: whatever the shape of the payload, extract_user_mentions does not
\* raise, and its result holds every mention that the text patterns find
C25_PayloadNeverRaises ==
    reply.fn = "extract_user_mentions" =>
        /\ ~reply.raised
        /\ LET slack == FindSlackMentions(reply.text, 1).ids
           IN  \A k \in 1..Len(slack) : \E i \in 1..Len(reply.value) : reply.value[i] = slack[k]

\* C22: track_emoji_reaction and track_emoji_message return True exactly
\* when the usage row and the statistics of the call were both stored, and
\* after a False nothing of the call is left in the tables
C22_TrueIffPersisted ==
    reply.fn \in {"track_emoji_reaction", "track_emoji_message"} =>
        LET rows == {r \in db.usage \ reply.before.usage :
                        r.giver_slack_id = reply.giver /\ r.emoji_name = reply.emoji_name}
        IN  /\ reply.returned <=> (rows # {} /\ db.stats # reply.before.stats)
            /\ ~reply.returned => db = reply.before

DbSessionEnded ==
    reply.fn = "get_db_session" /\ reply.pc \in {"returned", "raised"} =>
        /\ ~reply.open
        /\ reply.closes = 1
        /\ reply.pc = "returned" => (reply.commits = 1 /\ reply.rollbacks = 0 /\ reply.error = None)
        /\ reply.pc = "raised" =>
              /\ reply.rollbacks = 1
              /\ reply.error # None
              /\ reply.commits <= 1
              /\ reply.error = "body" => reply.commits = 0
              /\ reply.error = "commit" => reply.commits = 1

\* C26: a session opened through get_db_session is ended by one commit when
\* the body succeeded, and by one rollback and the error re-raised when the
\* body or the commit raised; it is closed once on every path; and every
\* opened session is closed in the end
C26_CommitOrRollbackThenClose ==
    /\ []DbSessionEnded
    /\ (reply.fn = "get_db_session" /\ reply.open) ~> (reply.fn = "get_db_session" /\ ~reply.open)

\* the commit of _handle_message's session raised: rolled back, closed, raised
C26_Witness ==
    /\ reply.fn = "get_db_session"
    /\ reply.caller = "_handle_message"
    /\ reply.pc = "raised"
    /\ reply.error = "commit"
    /\ reply.commits = 1
    /\ reply.rollbacks = 1
    /\ ~reply.open

\* C28: when _handle_message is over, either it has committed, with one new
\* usage row for each of its non-skipped tokens (a token that occurs twice
\* gives two) and the given counters of the sender raised by the number and
\* the score sum of the tokens of each emoji, or nothing it wrote remains:
\* the committed tables are those it started from
C28_MessageAllOrNone ==
    \A s \in Sessions :
        (Ended(s) /\ sess[s].op.kind = "message") =>
            LET c == sess[s]
            IN  \/ /\ c.outcome = "committed"
                   /\ Cardinality(db.usage \ c.before.usage) = Len(c.calls)
                   /\ \A i \in 1..Len(c.calls) :
                         LET e == c.calls[i].name
                         IN  /\ Counter(db, c.op.id, e, "given_count")
                                  = Counter(c.before, c.op.id, e, "given_count") + Len(CallsFor(c, e))
                             /\ Counter(db, c.op.id, e, "given_score")
                                  = Counter(c.before, c.op.id, e, "given_score")
                                      + SumScores(CallsFor(c, e))
                \/ /\ c.outcome # "committed"
                   /\ db = c.before

\* a message with two tokens was handled, the first of them not skipped: the
\* handler failed after it had written, and nothing remains
C28_Witness ==
    \E s \in Sessions :
        /\ Ended(s)
        /\ sess[s].op.kind = "message"
        /\ Len(sess[s].op.emojis) = 2
        /\ sess[s].calls # <<>>
        /\ sess[s].outcome \in Failures
        /\ sess[s].wrote
        /\ db = sess[s].before

\* C29: the sort_by of a leaderboard response is one of the four keys, and
\* the entries of the response are in an order never growing in that key
C29_ReportedKeyOrdersEntries ==
    reply.fn = "api_get_leaderboard" =>
        /\ reply.sort_by \in SortKeys
        /\ \A i \in 1..(Len(reply.entries) - 1) :
              reply.entries[i].stats[reply.sort_by] >= reply.entries[i + 1].stats[reply.sort_by]

\* C30: should_track_emoji(name) returns true exactly when track_emoji_usage
\* for that name, under the same configuration, does not take the skip
\* return, whatever the sign of the configured score
C30_TrackedIffNotSkipped ==
    (reply.fn = "should_track_emoji" /\ ~reply.raised) =>
        (reply.value <=> ~IsSkipped(GetEmojiScore(config, reply.name)))
====
